---------------------------- MODULE Spec2Model ----------------------------
(***************************************************************************)
(* PyTWAT: the telnet transport (network/telnet_client.py) and the event   *)
(* bus it publishes to (core/event_bus.py), as a state machine.            *)
(*                                                                         *)
(* Bytes are integers 0..255, byte strings and texts are sequences (a text *)
(* is a sequence of code points).  None is 0 for reader, writer and        *)
(* _read_task; streams and read-loop tasks are numbered from 1.            *)
(*                                                                         *)
(* asyncio runs one coroutine at a time and switches only at an await, so  *)
(* every action is the code of one coroutine from one suspension point to  *)
(* the next.                                                               *)
(***************************************************************************)
EXTENDS Integers, Sequences, FiniteSets, TLC

(***************************************************************************)
(* Bounds of the model.                                                    *)
(***************************************************************************)
MaxConn == 2
MaxCalls == 2
MaxLen == 5

(***************************************************************************)
(* Telnet protocol constants (telnet_client.py 15-27).                     *)
(***************************************************************************)
IAC == 255
DONT == 254
DO == 253
WONT == 252
WILL == 251
SB == 250
SE == 240
ECHO == 1
SUPPRESS_GO_AHEAD == 3
TERMINAL_TYPE == 24
NAWS == 31

ESC == 27

(***************************************************************************)
(* Byte-string helpers: bytes.find(sub, start) and the `in` operator.      *)
(* Indices are 1-based here; Find returns 0 where Python returns -1.       *)
(***************************************************************************)
MatchAt(data, sub, j) ==
    /\ j >= 1
    /\ j + Len(sub) - 1 <= Len(data)
    /\ \A k \in 1..Len(sub) : data[j + k - 1] = sub[k]

Find(data, sub, start) ==
    LET hits == {j \in start..Len(data) : MatchAt(data, sub, j)}
    IN  IF hits = {} THEN 0 ELSE CHOOSE j \in hits : \A h \in hits : j <= h

Contains(data, sub) == Find(data, sub, 1) # 0

(***************************************************************************)
(* Faulty variants of _handle_telnet_command, which the properties of the  *)
(* negotiation must tell from it: one agrees to NAWS without sending the   *)
(* window size, one refuses every option the server offers.                *)
(***************************************************************************)
HandleTelnetCommand_NoWindowSize(command, option) ==
    IF command = DO THEN
        IF option \in {TERMINAL_TYPE, NAWS} THEN <<IAC, WILL, option>>
        ELSE <<IAC, WONT, option>>
    ELSE IF command = DONT THEN <<IAC, WONT, option>>
    ELSE IF command = WILL THEN
        IF option \in {ECHO, SUPPRESS_GO_AHEAD} THEN <<IAC, DO, option>>
        ELSE <<IAC, DONT, option>>
    ELSE IF command = WONT THEN <<IAC, DONT, option>>
    ELSE << >>

HandleTelnetCommand_RefusesOffers(command, option) ==
    IF command = DO THEN
        IF option = TERMINAL_TYPE THEN <<IAC, WILL, TERMINAL_TYPE>>
        ELSE IF option = NAWS THEN
            <<IAC, WILL, NAWS>> \o (<<IAC, SB, NAWS>> \o <<0, 80, 0, 24>> \o <<IAC, SE>>)
        ELSE <<IAC, WONT, option>>
    ELSE IF command = DONT THEN <<IAC, WONT, option>>
    ELSE IF command \in {WILL, WONT} THEN <<IAC, DONT, option>>
    ELSE << >>

(***************************************************************************)
(* TelnetClient._handle_telnet_command: the bytes handed to writer.write   *)
(* for one negotiation command (the writer being present).                 *)
(***************************************************************************)
HandleTelnetCommand(command, option) ==
    IF command = DO THEN
        IF option = TERMINAL_TYPE THEN <<IAC, WILL, TERMINAL_TYPE>>
        ELSE IF option = NAWS THEN
            <<IAC, WILL, NAWS>> \o (<<IAC, SB, NAWS>> \o <<0, 80, 0, 24>> \o <<IAC, SE>>)
        ELSE <<IAC, WONT, option>>
    ELSE IF command = DONT THEN <<IAC, WONT, option>>
    ELSE IF command = WILL THEN
        IF option \in {ECHO, SUPPRESS_GO_AHEAD} THEN <<IAC, DO, option>>
        ELSE <<IAC, DONT, option>>
    ELSE IF command = WONT THEN <<IAC, DONT, option>>
    ELSE << >>

\* A faulty variant of _handle_subnegotiation: every terminal-type
\* subnegotiation is answered, whatever its command.
HandleSubnegotiation_AnswersAnyCommand(data) ==
    IF Len(data) < 1 THEN << >>
    ELSE IF data[1] = TERMINAL_TYPE
         THEN <<IAC, SB, TERMINAL_TYPE, 0>> \o <<65, 78, 83, 73>> \o <<IAC, SE>>
         ELSE << >>

(***************************************************************************)
(* TelnetClient._handle_subnegotiation: the bytes written for the body of  *)
(* one subnegotiation (without IAC SB and IAC SE); << >> when none.        *)
(***************************************************************************)
HandleSubnegotiation(data) ==
    IF Len(data) < 1 THEN << >>
    ELSE IF data[1] = TERMINAL_TYPE /\ Len(data) >= 2 /\ data[2] = 1
         THEN <<IAC, SB, TERMINAL_TYPE, 0>> \o <<65, 78, 83, 73>> \o <<IAC, SE>>
         ELSE << >>

(***************************************************************************)
(* TelnetClient._handle_terminal_probes: the writes (each followed by a    *)
(* drain) for one piece of display data, in order.                         *)
(***************************************************************************)
HandleTerminalProbes(data) ==
    (IF Contains(data, <<ESC, 91, 54, 110>>)
        THEN << <<ESC, 91, 50, 52, 59, 56, 48, 82>> >> ELSE << >>)
    \o
    (IF Contains(data, <<ESC, 91, 99>>) \/ Contains(data, <<ESC, 91, 48, 99>>)
        THEN << <<ESC, 91, 63, 49, 59, 48, 99>> >> ELSE << >>)

(***************************************************************************)
(* TelnetClient._process_telnet_data.  Scan is the while loop: i is the    *)
(* (1-based) index, result the display bytes so far, replies the writes of *)
(* the handlers called so far, each a byte string followed by a drain.  A  *)
(* handler that writes nothing does not drain and leaves no entry.         *)
(***************************************************************************)
RECURSIVE Scan(_, _, _, _)
Scan(data, i, result, replies) ==
    LET stop == [result |-> result, replies |-> replies]
    IN
    IF i > Len(data) THEN stop
    ELSE IF data[i] = IAC THEN
        IF i + 1 > Len(data) THEN stop
        ELSE LET command == data[i + 1] IN
            IF command \in {DO, DONT, WILL, WONT} THEN
                IF i + 2 > Len(data) THEN stop
                ELSE Scan(data, i + 3, result,
                          Append(replies, HandleTelnetCommand(command, data[i + 2])))
            ELSE IF command = SB THEN
                LET end == Find(data, <<IAC, SE>>, i + 2) IN
                IF end = 0 THEN stop
                ELSE LET w == HandleSubnegotiation(SubSeq(data, i + 2, end - 1))
                     IN  Scan(data, end + 2, result,
                              IF w = << >> THEN replies ELSE Append(replies, w))
            ELSE IF command = IAC THEN
                Scan(data, i + 2, Append(result, 255), replies)
            ELSE Scan(data, i + 2, result, replies)
    ELSE Scan(data, i + 1, Append(result, data[i]), replies)

\* A faulty variant: the replies are written, the chunk is forwarded as it
\* came.
ProcessTelnetData_ForwardsRaw(data) ==
    [result |-> data, replies |-> Scan(data, 1, << >>, << >>).replies]

ProcessTelnetData(data) == Scan(data, 1, << >>, << >>)

(***************************************************************************)
(* bytes.decode('cp437', errors='replace') (telnet_client.py 130): bytes   *)
(* 0..127 are ASCII, bytes 128..255 go through the code page's table.      *)
(***************************************************************************)
CP437High ==
    <<199, 252, 233, 226, 228, 224, 229, 231, 234, 235, 232, 239, 238, 236,
      196, 197, 201, 230, 198, 244, 246, 242, 251, 249, 255, 214, 220, 162,
      163, 165, 8359, 402, 225, 237, 243, 250, 241, 209, 170, 186, 191, 8976,
      172, 189, 188, 161, 171, 187, 9617, 9618, 9619, 9474, 9508, 9569, 9570,
      9558, 9557, 9571, 9553, 9559, 9565, 9564, 9563, 9488, 9492, 9524, 9516,
      9500, 9472, 9532, 9566, 9567, 9562, 9556, 9577, 9574, 9568, 9552, 9580,
      9575, 9576, 9572, 9573, 9561, 9560, 9554, 9555, 9579, 9578, 9496, 9484,
      9608, 9604, 9612, 9616, 9600, 945, 223, 915, 960, 931, 963, 181, 964,
      934, 920, 937, 948, 8734, 966, 949, 8745, 8801, 177, 8805, 8804, 8992,
      8993, 247, 8776, 176, 8729, 183, 8730, 8319, 178, 9632, 160>>

\* A faulty variant: the bytes are decoded as Latin-1.
DecodeByte_Latin1(b) == b

DecodeByte(b) == IF b < 128 THEN b ELSE CP437High[b - 127]

Decode(bytes) == [k \in 1..Len(bytes) |-> DecodeByte(bytes[k])]

(***************************************************************************)
(* str.encode('utf-8') (telnet_client.py 106) for code points below 2048,  *)
(* and for the surrogates U+D800..U+DFFF, on which it raises               *)
(* UnicodeEncodeError.                                                     *)
(***************************************************************************)
Encodable(text) == \A k \in 1..Len(text) : text[k] \notin 55296..57343

EncodeChar(cp) ==
    IF cp < 128 THEN <<cp>>
    ELSE <<192 + (cp \div 64), 128 + (cp % 64)>>

RECURSIVE Encode(_)
Encode(text) ==
    IF text = << >> THEN << >> ELSE EncodeChar(Head(text)) \o Encode(Tail(text))

(***************************************************************************)
(* What the environment can supply.                                        *)
(***************************************************************************)
Hosts == {"bbs"}
Port == 23

\* Texts given to send(): "e-acute", two bytes in UTF-8, and a lone
\* surrogate, which UTF-8 cannot represent.
Texts == {<<233>>, <<55296>>}

\* Byte streams a server sends in the lifecycle specification: a negotiation
\* followed by a terminal probe, so that a read passes through every await
\* of the read loop.
MenuStreams == {<<IAC, DO, NAWS, ESC, 91, 99>>}

\* Byte streams of the byte-level specification: every string of at most
\* MaxLen bytes over the bytes the scanner tells apart, and every single
\* negotiation command.
Alphabet == {NAWS, 65, SE, SB, DO, IAC}
Options == {0, ECHO, SUPPRESS_GO_AHEAD, TERMINAL_TYPE, NAWS, 65}
Verbs == {DO, DONT, WILL, WONT}
ByteStrings == UNION {[1..n -> Alphabet] : n \in 0..MaxLen}
Commands == {<<IAC, v, o>> : v \in Verbs, o \in Options}
ByteStreams == ByteStrings \cup Commands

\* Byte streams of the terminal-identification specification: single
\* subnegotiations, and display data with and without the two probes.
SubnegotiationBodies ==
    {<< >>, <<TERMINAL_TYPE>>, <<TERMINAL_TYPE, 1>>, <<TERMINAL_TYPE, 0>>,
     <<TERMINAL_TYPE, 1, 65>>, <<NAWS, 1>>}
Subnegotiations == {<<IAC, SB>> \o body \o <<IAC, SE>> : body \in SubnegotiationBodies}
ProbeStreams ==
    {<<ESC, 91, 54, 110>>, <<ESC, 91, 99>>, <<ESC, 91, 48, 99>>,
     <<65, ESC, 91, 54, 110, ESC, 91, 99>>, <<ESC, 91, 72, 65>>,
     <<IAC, DO, ECHO, ESC, 91, 54, 110>>,
     <<ESC, 91, 54, 110, ESC, 91, 54, 110>>,
     <<IAC, DO, TERMINAL_TYPE, ESC, 91, 54, 110, IAC, WILL, ECHO, ESC, 91, 99>>}
TerminalStreams == Subnegotiations \cup ProbeStreams

\* Byte streams of the decoding specification: every byte value as display
\* data (255 escaped, as telnet sends it), and a line of ANSI art.
DecodeStreams ==
    {<<b>> : b \in 0..254} \cup {<<IAC, IAC>>}
        \cup {<<ESC, 91, 49, 59, 51, 52, 109, 176, 219, 196, 65>>}

Tasks == 1..MaxConn
Calls == (MaxConn + 1)..(MaxConn + MaxCalls)
Procs == Tasks \cup Calls

NoError == ""

(***************************************************************************)
(* State.                                                                  *)
(*   connected, reader, writer, read_task   the TelnetClient's fields      *)
(*   proc     every coroutine: the read-loop task of each connection and   *)
(*            each call of connect(), disconnect(), send(); pc is the      *)
(*            await it is suspended at, the other fields are its locals    *)
(*   stream   every connection opened: what the server sent, what of it is *)
(*            still to be read and in how many reads the rest was read,    *)
(*            what was written, whether the writer was closed, and the     *)
(*            task waiting in reader.read(); mark, of a read-loop task, is *)
(*            how much had been written on its connection when its current *)
(*            chunk was read                                               *)
(*   nconn    the number of connections opened so far                      *)
(*   events   the events published to the event bus, in order             *)
(***************************************************************************)
VARIABLES connected, reader, writer, read_task, proc, stream, nconn, events,
          subscribers, last, feeds, to_parser

vars == <<connected, reader, writer, read_task, proc, stream, nconn, events,
          subscribers, last, feeds, to_parser>>

NoProc(pc) ==
    [pc |-> pc, op |-> "", must_cancel |-> FALSE, rd |-> 0, aw |-> 0,
     raw_bytes |-> << >>, result |-> << >>, processed_data |-> << >>,
     pend |-> << >>, host |-> "", port |-> 0, data |-> << >>, res |-> "",
     mark |-> 0]

NoStream ==
    [opened |-> FALSE, sent |-> << >>, inbound |-> << >>, reads |-> 0,
     written |-> << >>, closed |-> FALSE, waiter |-> 0]

\* The last call made on the event bus: its arguments, the callback
\* invocations it made, in order, and how it ended.
NoEvent == [event_type |-> "", data |-> ""]

NoCall ==
    [op |-> "", event_type |-> "", callback |-> "", event |-> NoEvent,
     invoked |-> << >>, res |-> ""]

\* TelnetClient.__init__, EventBus.__init__ and TerminalEmulator.__init__.
\* feeds is the text of the feed() calls made so far; to_parser is the bytes
\* they have handed to the screen's byte stream, which keeps its state from
\* one call to the next.
Init ==
    /\ connected = FALSE
    /\ reader = 0
    /\ writer = 0
    /\ read_task = 0
    /\ proc = [p \in Procs |-> IF p \in Tasks THEN NoProc("none") ELSE NoProc("idle")]
    /\ stream = [s \in 1..MaxConn |-> NoStream]
    /\ nconn = 0
    /\ events = << >>
    /\ subscribers = [event_type \in {} |-> << >>]
    /\ last = NoCall
    /\ feeds = << >>
    /\ to_parser = << >>

(***************************************************************************)
(* The event bus on its own: subscribe, unsubscribe and publish called in  *)
(* any order on one EventBus.  _subscribers is a dict from event type to   *)
(* the list of callbacks, a function whose domain is the set of keys.  A   *)
(* callback records the event it is handed; the callback "boom" records    *)
(* it and raises.  Callbacks that change the registrations while they are  *)
(* called come with SpecReentrant.                                         *)
(***************************************************************************)
MaxSubs == 3

EventTypes == {"CONNECTED", "DATA_RECEIVED"}

BusCallbacks == {"a", "b", "boom"}

BusEvents == [event_type : EventTypes, data : {"test", ""}]

clientVars == <<connected, reader, writer, read_task, proc, stream, nconn, events>>

emulatorVars == <<feeds, to_parser>>

\* list.append(callback), after the list of a new key is created empty
Subscribed_Prepends(subs, event_type, callback) ==
    [t \in DOMAIN subs \cup {event_type} |->
        IF t = event_type
        THEN <<callback>> \o (IF t \in DOMAIN subs THEN subs[t] ELSE << >>)
        ELSE subs[t]]

Subscribed(subs, event_type, callback) ==
    [t \in DOMAIN subs \cup {event_type} |->
        IF t = event_type
        THEN Append(IF t \in DOMAIN subs THEN subs[t] ELSE << >>, callback)
        ELSE subs[t]]

\* list.remove(x): the first item equal to x is removed
ListRemove_All(list, x) == SelectSeq(list, LAMBDA y : y # x)

ListRemove(list, x) ==
    LET i == CHOOSE k \in 1..Len(list) :
                 list[k] = x /\ \A j \in 1..(k - 1) : list[j] # x
    IN  SubSeq(list, 1, i - 1) \o SubSeq(list, i + 1, Len(list))

\* unsubscribe(event_type, callback): the registry it leaves and how it ends
Unsubscribed(subs, event_type, callback) ==
    IF event_type \notin DOMAIN subs
    THEN [subscribers |-> subs, res |-> "returned"]
    ELSE IF \A k \in 1..Len(subs[event_type]) : subs[event_type][k] # callback
    THEN [subscribers |-> subs, res |-> "ValueError"]
    ELSE [subscribers |-> [subs EXCEPT ![event_type] = ListRemove(@, callback)],
          res |-> "returned"]

\* What a callback does when it is called, besides recording the event:
\* "boom" raises, "once" unsubscribes itself from the event's type, "adder"
\* subscribes "a" to it while there is room; the others only record.
CallbackBody(callback, subs, event) ==
    IF callback = "boom" THEN [subscribers |-> subs, res |-> "raised"]
    ELSE IF callback = "once" THEN Unsubscribed(subs, event.event_type, "once")
    ELSE IF callback = "adder" /\ Len(subs[event.event_type]) < MaxSubs
    THEN [subscribers |-> Subscribed(subs, event.event_type, "a"), res |-> "returned"]
    ELSE [subscribers |-> subs, res |-> "returned"]

\* for callback in self._subscribers[event.event_type]: callback(event).
\* The loop walks the list itself, by position, so it sees what a callback
\* adds to it or removes from it.
RECURSIVE Deliver(_, _, _, _)
Deliver(subs, event, i, invoked) ==
    IF i > Len(subs[event.event_type])
    THEN [subscribers |-> subs, invoked |-> invoked, res |-> "returned"]
    ELSE LET callback == subs[event.event_type][i]
             called == Append(invoked, [callback |-> callback, event |-> event])
             body == CallbackBody(callback, subs, event)
         IN  IF body.res # "returned"
             THEN [subscribers |-> body.subscribers, invoked |-> called, res |-> "raised"]
             ELSE Deliver(body.subscribers, event, i + 1, called)

(***************************************************************************)
(* The code between two awaits is a function from state to state; an       *)
(* action commits the state its code leaves.                               *)
(***************************************************************************)
Cur ==
    [connected |-> connected, reader |-> reader, writer |-> writer,
     read_task |-> read_task, proc |-> proc, stream |-> stream,
     nconn |-> nconn, events |-> events]

Commit(after) ==
    \E s \in {after} :
        /\ connected' = s.connected
        /\ reader' = s.reader
        /\ writer' = s.writer
        /\ read_task' = s.read_task
        /\ proc' = s.proc
        /\ stream' = s.stream
        /\ nconn' = s.nconn
        /\ events' = s.events
        /\ UNCHANGED <<subscribers, last, feeds, to_parser>>

\* Event(type, data): keys is the set of keys of the payload dict.
EvConnected(host, port, conn, by) ==
    [type |-> "CONNECTED", keys |-> {"host", "port"}, host |-> host, port |-> port,
     error |-> NoError, data |-> << >>, conn |-> conn, by |-> by]

EvDisconnected(error, by) ==
    [type |-> "DISCONNECTED", keys |-> IF error = NoError THEN {} ELSE {"error"},
     host |-> "", port |-> 0, error |-> error, data |-> << >>, conn |-> 0, by |-> by]

EvDataReceived(text, conn, by) ==
    [type |-> "DATA_RECEIVED", keys |-> {"data"}, host |-> "", port |-> 0,
     error |-> NoError, data |-> text, conn |-> conn, by |-> by]

EvDataSent(text, by) ==
    [type |-> "DATA_SENT", keys |-> {"data"}, host |-> "", port |-> 0,
     error |-> NoError, data |-> text, conn |-> 0, by |-> by]

\* EventBus.publish, seen from the publisher: the event is delivered.
Publish(s, ev) == [s EXCEPT !.events = Append(@, ev)]

\* The coroutine returns (or its task ends); res is how.
Finish(s, p, res) ==
    [s EXCEPT !.proc[p].pc = "done", !.proc[p].res = res,
              !.proc[p].must_cancel = FALSE, !.proc[p].pend = << >>]

\* writer.write(bytes) on the current writer.
Write(s, bytes) == [s EXCEPT !.stream[s.writer].written = @ \o bytes]

\* A faulty variant of Task.cancel(): the request is lost.
Cancel_Ignored(s, q) == s

\* Task.cancel(): a finished task ignores it; otherwise CancelledError is
\* thrown into the task when it next runs.
Cancel(s, q) ==
    IF s.proc[q].pc = "done" THEN s ELSE [s EXCEPT !.proc[q].must_cancel = TRUE]

(***************************************************************************)
(* TelnetClient.disconnect, run by a disconnect() call or by the read      *)
(* loop on EOF.  Awaits: the read task (79), writer.wait_closed() (86).    *)
(***************************************************************************)
\* A faulty variant of 90-93: reader and writer are not released.
DisconnectFinish_KeepsStreams(s, p) ==
    LET s1 == [s EXCEPT !.connected = FALSE]
        s2 == Publish(s1, EvDisconnected(NoError, p))
    IN  Finish(s2, p, IF p \in Tasks THEN "eof" ELSE "ok")

\* 90-93
DisconnectFinish(s, p) ==
    LET s1 == [s EXCEPT !.connected = FALSE, !.reader = 0, !.writer = 0]
        s2 == Publish(s1, EvDisconnected(NoError, p))
    IN  Finish(s2, p, IF p \in Tasks THEN "eof" ELSE "ok")

\* A faulty variant of 83-86: the writer is not closed.
DisconnectClose_LeavesOpen(s, p) == DisconnectFinish(s, p)

\* 83-86
DisconnectClose(s, p) ==
    IF s.writer # 0
    THEN [s EXCEPT !.stream[s.writer].closed = TRUE, !.proc[p].pc = "d_close"]
    ELSE DisconnectFinish(s, p)

\* 76-79: awaiting a finished task returns at once (its CancelledError, if
\* it was cancelled, is caught); a task awaiting itself is resumed by the
\* loop with an exception.
DisconnectEnter(s, p) ==
    IF s.read_task # 0 THEN
        LET q == s.read_task
            s1 == Cancel(s, q)
        IN  IF q = p THEN [s1 EXCEPT !.proc[p].pc = "d_self"]
            ELSE IF s1.proc[q].pc = "done" THEN DisconnectClose(s1, p)
            ELSE [s1 EXCEPT !.proc[p].pc = "d_wait", !.proc[p].aw = q]
    ELSE DisconnectClose(s, p)

(***************************************************************************)
(* TelnetClient._read_loop.  Awaits: reader.read (115), the drains of the  *)
(* handlers called by _process_telnet_data (121) and by                    *)
(* _handle_terminal_probes (125), and disconnect() (117).                  *)
(***************************************************************************)
\* 137-139: except Exception
ReadLoopError(s, t, error) ==
    Finish([Publish(s, EvDisconnected(error, t)) EXCEPT !.connected = FALSE], t, "error")

\* 113-115: the loop condition, then reader.read on the current reader,
\* which raises RuntimeError when another coroutine already waits on it.
LoopTop(s, t) ==
    IF s.connected /\ s.reader # 0 THEN
        IF s.stream[s.reader].waiter # 0 THEN ReadLoopError(s, t, "busy")
        ELSE [s EXCEPT !.proc[t].pc = "read", !.proc[t].rd = s.reader,
                       !.stream[s.reader].waiter = t]
    ELSE Finish(s, t, "cond")

\* A faulty variant of 129-131: display data in which a probe was answered
\* is not published.
PublishData_ConsumesProbes(s, t) ==
    LET pr == s.proc[t]
    IN  IF HandleTerminalProbes(pr.processed_data) # << >> THEN LoopTop(s, t)
        ELSE LoopTop(Publish(s, EvDataReceived(Decode(pr.processed_data), pr.rd, t)), t)

\* A faulty variant of 127-133: what a subscriber raises leaves the loop
\* and is handled as a read error (137-139).
PublishData_Propagates(s, t) ==
    LET pr == s.proc[t]
        text == Decode(pr.processed_data)
        published == Publish(s, EvDataReceived(text, pr.rd, t))
        d == IF "DATA_RECEIVED" \in DOMAIN subscribers
             THEN Deliver(subscribers, [event_type |-> "DATA_RECEIVED", data |-> text],
                          1, << >>)
             ELSE [subscribers |-> subscribers, invoked |-> << >>, res |-> "returned"]
    IN  IF d.res = "raised" THEN ReadLoopError(published, t, "subscriber")
        ELSE LoopTop(published, t)

\* 127-133: decode and publish, then the next iteration.  The event goes
\* to the subscribers of DATA_RECEIVED (event_bus.py 80-82); what one of
\* them raises ends the delivery and is swallowed by `except Exception:
\* pass`.
PublishData(s, t) ==
    LET pr == s.proc[t]
        text == Decode(pr.processed_data)
        published == Publish(s, EvDataReceived(text, pr.rd, t))
        d == IF "DATA_RECEIVED" \in DOMAIN subscribers
             THEN Deliver(subscribers, [event_type |-> "DATA_RECEIVED", data |-> text],
                          1, << >>)
             ELSE [subscribers |-> subscribers, invoked |-> << >>, res |-> "returned"]
    IN  IF d.res = "raised" THEN LoopTop(published, t)
        ELSE LoopTop(published, t)

\* A faulty variant of 121-131: the display data is published before the
\* probes in it are answered.
AfterProcess_PublishesFirst(s, t) ==
    LET s1 == [s EXCEPT !.proc[t].processed_data = s.proc[t].result,
                        !.proc[t].pend = << >>]
        data == s1.proc[t].processed_data
        probes == HandleTerminalProbes(data)
    IN  IF data = << >> THEN LoopTop(s1, t)
        ELSE IF s1.writer = 0 \/ probes = << >> THEN PublishData(s1, t)
        ELSE [Write(Publish(s1, EvDataReceived(Decode(data), s1.proc[t].rd, t)),
                    Head(probes))
                  EXCEPT !.proc[t].pend = Tail(probes), !.proc[t].pc = "probe"]

\* 121-125: _process_telnet_data has returned.
AfterProcess(s, t) ==
    LET s1 == [s EXCEPT !.proc[t].processed_data = s.proc[t].result,
                        !.proc[t].pend = << >>]
        data == s1.proc[t].processed_data
        probes == HandleTerminalProbes(data)
    IN  IF data = << >> THEN LoopTop(s1, t)
        ELSE IF s1.writer = 0 \/ probes = << >> THEN PublishData(s1, t)
        ELSE [Write(s1, Head(probes)) EXCEPT !.proc[t].pend = Tail(probes),
                                             !.proc[t].pc = "probe"]

\* 167, 176: the next handler of _process_telnet_data that writes; without
\* a writer every handler returns at once.
Negotiate(s, t) ==
    LET pend == s.proc[t].pend
    IN  IF pend # << >> /\ s.writer # 0
        THEN [Write(s, Head(pend)) EXCEPT !.proc[t].pend = Tail(pend),
                                          !.proc[t].pc = "neg"]
        ELSE AfterProcess(s, t)

\* 269-272: the second probe reply, after the drain of the first; the
\* writer is not checked again.
NextProbe(s, t) ==
    LET pend == s.proc[t].pend
    IN  IF pend = << >> THEN PublishData(s, t)
        ELSE IF s.writer = 0 THEN ReadLoopError(s, t, "attr")
        ELSE [Write(s, Head(pend)) EXCEPT !.proc[t].pend = Tail(pend),
                                          !.proc[t].pc = "probe"]

\* 115-121: reader.read returned the next n bytes.
GotChunk(s, t, n) ==
    LET r == s.proc[t].rd
        raw == SubSeq(s.stream[r].inbound, 1, n)
        rest == SubSeq(s.stream[r].inbound, n + 1, Len(s.stream[r].inbound))
        out == ProcessTelnetData(raw)
        s1 == [s EXCEPT !.stream[r].inbound = rest, !.stream[r].waiter = 0,
                        !.stream[r].reads = @ + 1,
                        !.proc[t].raw_bytes = raw, !.proc[t].result = out.result,
                        !.proc[t].pend = out.replies,
                        !.proc[t].mark = Len(s.stream[r].written)]
    IN  Negotiate(s1, t)

\* 116-118: reader.read returned b''.
GotEOF(s, t) ==
    LET r == s.proc[t].rd
    IN  DisconnectEnter([s EXCEPT !.stream[r].waiter = 0, !.proc[t].raw_bytes = << >>], t)

\* reader.read raised.
GotError(s, t) ==
    LET r == s.proc[t].rd
    IN  ReadLoopError([s EXCEPT !.stream[r].waiter = 0], t, "reset")

\* 135-136: CancelledError thrown at an await of the loop.
Cancelled(s, t) ==
    LET r == s.proc[t].rd
        s1 == IF s.proc[t].pc = "read" THEN [s EXCEPT !.stream[r].waiter = 0] ELSE s
    IN  Finish(s1, t, "cancelled")

(***************************************************************************)
(* TelnetClient.connect.  Await: open_connection under wait_for (59).      *)
(***************************************************************************)
\* A faulty variant of 63-69: the read loop is started, CONNECTED is not
\* published.
Connected_Unannounced(s, c, inbound, raises) ==
    LET n == s.nconn + 1
        s1 == [s EXCEPT !.nconn = n,
                        !.stream[n] = [NoStream EXCEPT !.opened = TRUE,
                                                       !.sent = inbound,
                                                       !.inbound = inbound],
                        !.reader = n, !.writer = n, !.connected = TRUE]
    IN  Finish([s1 EXCEPT !.proc[n] = [NoProc("new") EXCEPT !.op = "read_loop"],
                          !.read_task = n], c, "true")

\* 63-69 and, when a subscriber of CONNECTED raises, 70-72.
Connected(s, c, inbound, raises) ==
    LET n == s.nconn + 1
        s1 == [s EXCEPT !.nconn = n,
                        !.stream[n] = [NoStream EXCEPT !.opened = TRUE,
                                                       !.sent = inbound,
                                                       !.inbound = inbound],
                        !.reader = n, !.writer = n, !.connected = TRUE]
        s2 == Publish(s1, EvConnected(s.proc[c].host, s.proc[c].port, n, c))
    IN  IF raises
        THEN Finish(Publish(s2, EvDisconnected("subscriber", c)), c, "false")
        ELSE Finish([s2 EXCEPT !.proc[n] = [NoProc("new") EXCEPT !.op = "read_loop"],
                               !.read_task = n], c, "true")

\* 70-72: open_connection failed or timed out.
ConnectFailed(s, c) ==
    Finish(Publish(s, EvDisconnected("open", c)), c, "false")

(***************************************************************************)
(* TelnetClient.send.  Await: writer.drain (107).                          *)
(***************************************************************************)
\* Faulty variants of 102-107: one tests the writer alone, one gives the
\* connection up when the text cannot be encoded.
SendEnter_ChecksWriterOnly(s, c, text) ==
    LET s1 == [s EXCEPT !.proc[c].op = "send", !.proc[c].data = text]
    IN  IF s1.writer = 0 THEN Finish(s1, c, "not_connected")
        ELSE IF ~Encodable(text) THEN Finish(s1, c, "raised")
        ELSE [Write(s1, Encode(text)) EXCEPT !.proc[c].pc = "s_drain"]

SendEnter_FailureDisconnects(s, c, text) ==
    LET s1 == [s EXCEPT !.proc[c].op = "send", !.proc[c].data = text]
    IN  IF ~s1.connected \/ s1.writer = 0 THEN Finish(s1, c, "not_connected")
        ELSE IF ~Encodable(text)
             THEN Finish([s1 EXCEPT !.connected = FALSE], c, "raised")
        ELSE [Write(s1, Encode(text)) EXCEPT !.proc[c].pc = "s_drain"]

\* 102-107; encode raises before anything is written.
SendEnter(s, c, text) ==
    LET s1 == [s EXCEPT !.proc[c].op = "send", !.proc[c].data = text]
    IN  IF ~s1.connected \/ s1.writer = 0 THEN Finish(s1, c, "not_connected")
        ELSE IF ~Encodable(text) THEN Finish(s1, c, "raised")
        ELSE [Write(s1, Encode(text)) EXCEPT !.proc[c].pc = "s_drain"]

\* 107: drain raises, and send() with it.
SendFailed(s, c) == Finish(s, c, "raised")

\* A faulty variant of 108: the notification carries the encoded bytes.
SendFinish_PublishesEncoded(s, c) ==
    Finish(Publish(s, EvDataSent(Encode(s.proc[c].data), c)), c, "ok")

\* 108
SendFinish(s, c) == Finish(Publish(s, EvDataSent(s.proc[c].data, c)), c, "ok")

(***************************************************************************)
(* Actions: one per resumption of a coroutine.                             *)
(***************************************************************************)
\* The first step of a read-loop task made by create_task (67).
TaskStart(t) ==
    /\ proc[t].pc = "new"
    /\ Commit(IF proc[t].must_cancel THEN Finish(Cur, t, "cancelled") ELSE LoopTop(Cur, t))

\* reader.read(4096) returns bytes the server has sent: all that is left
\* of them (whole), or any non-empty prefix.
ReadChunk(t, whole) ==
    /\ proc[t].pc = "read"
    /\ ~proc[t].must_cancel
    /\ stream[proc[t].rd].inbound # << >>
    /\ LET len == Len(stream[proc[t].rd].inbound)
       IN  \E n \in (IF whole THEN {len} ELSE 1..len) : Commit(GotChunk(Cur, t, n))

\* reader.read(4096) returns b'': the server closed after its last byte.
ReadEOF(t) ==
    /\ proc[t].pc = "read"
    /\ ~proc[t].must_cancel
    /\ stream[proc[t].rd].inbound = << >>
    /\ Commit(GotEOF(Cur, t))

\* reader.read(4096) raises (connection reset).
ReadError(t) ==
    /\ proc[t].pc = "read"
    /\ ~proc[t].must_cancel
    /\ Commit(GotError(Cur, t))

\* A cancelled task is resumed with CancelledError at its await.
TaskCancelled(t) ==
    /\ proc[t].pc \in {"read", "neg", "probe"}
    /\ proc[t].must_cancel
    /\ Commit(Cancelled(Cur, t))

\* writer.drain() of a negotiation handler returns.
DrainedNegotiation(t) ==
    /\ proc[t].pc = "neg"
    /\ ~proc[t].must_cancel
    /\ Commit(Negotiate(Cur, t))

\* writer.drain() of the probe handler returns.
DrainedProbe(t) ==
    /\ proc[t].pc = "probe"
    /\ ~proc[t].must_cancel
    /\ Commit(NextProbe(Cur, t))

\* disconnect(), line 79, run by the read task itself: it was cancelled
\* just before (77), so CancelledError is thrown, and caught at 80.
AwaitedSelf(p) ==
    /\ proc[p].pc = "d_self"
    /\ Commit(IF proc[p].must_cancel
              THEN DisconnectClose([Cur EXCEPT !.proc[p].must_cancel = FALSE], p)
              ELSE ReadLoopError(Cur, p, "self"))

\* disconnect(), line 79: the awaited read task has ended, or the awaiting
\* task was itself cancelled; either way line 80 lets it go on.
AwaitedTask(p) ==
    /\ proc[p].pc = "d_wait"
    /\ proc[p].must_cancel \/ proc[proc[p].aw].pc = "done"
    /\ Commit(DisconnectClose([Cur EXCEPT !.proc[p].must_cancel = FALSE], p))

\* disconnect(), line 86: wait_closed() returns or raises an Exception; a
\* CancelledError is not caught there and ends the read loop at 135.
AwaitedClosed(p) ==
    /\ proc[p].pc = "d_close"
    /\ Commit(IF proc[p].must_cancel THEN Finish(Cur, p, "cancelled")
              ELSE DisconnectFinish(Cur, p))

\* Calls are numbered in the order they are made.
NextCall(c) == proc[c].pc = "idle" /\ \A d \in Calls : d < c => proc[d].pc # "idle"

\* connect(host, port) is called; callers connect only while disconnected.
CallConnect(c, host) ==
    /\ NextCall(c)
    /\ ~connected
    /\ Commit([Cur EXCEPT !.proc[c].pc = "c_open", !.proc[c].op = "connect",
                          !.proc[c].host = host, !.proc[c].port = Port])

\* open_connection returns a stream, on which the server sends one of
\* `streams`; a subscriber of CONNECTED raises or not, as `raising` allows.
ConnectOpens(c, streams, raising) ==
    /\ proc[c].pc = "c_open"
    /\ nconn < MaxConn
    /\ \E inbound \in streams, raises \in raising :
           Commit(Connected(Cur, c, inbound, raises))

\* open_connection raises or times out.
ConnectFails(c) ==
    /\ proc[c].pc = "c_open"
    /\ Commit(ConnectFailed(Cur, c))

\* disconnect() is called.
CallDisconnect(c) ==
    /\ NextCall(c)
    /\ Commit(DisconnectEnter([Cur EXCEPT !.proc[c].op = "disconnect"], c))

\* send(text) is called.
CallSend(c, text) ==
    /\ NextCall(c)
    /\ Commit(SendEnter(Cur, c, text))

\* writer.drain() of send() returns.
SendDrained(c) ==
    /\ proc[c].pc = "s_drain"
    /\ Commit(SendFinish(Cur, c))

\* writer.drain() of send() raises (the connection was lost).
SendDrainFails(c) ==
    /\ proc[c].pc = "s_drain"
    /\ Commit(SendFailed(Cur, c))

(***************************************************************************)
(* Spec: the transport under every interleaving of its callers, its read   *)
(* loops and the server.                                                   *)
(***************************************************************************)
Next ==
    \/ \E t \in Tasks : TaskStart(t)
    \/ \E t \in Tasks : ReadChunk(t, TRUE)
    \/ \E t \in Tasks : ReadEOF(t)
    \/ \E t \in Tasks : ReadError(t)
    \/ \E t \in Tasks : TaskCancelled(t)
    \/ \E t \in Tasks : DrainedNegotiation(t)
    \/ \E t \in Tasks : DrainedProbe(t)
    \/ \E p \in Procs : AwaitedSelf(p)
    \/ \E p \in Procs : AwaitedTask(p)
    \/ \E p \in Procs : AwaitedClosed(p)
    \/ \E c \in Calls, h \in Hosts : CallConnect(c, h)
    \/ \E c \in Calls : ConnectOpens(c, MenuStreams, BOOLEAN)
    \/ \E c \in Calls : ConnectFails(c)
    \/ \E c \in Calls : CallDisconnect(c)
    \/ \E c \in Calls, x \in Texts : CallSend(c, x)
    \/ \E c \in Calls : SendDrained(c)
    \/ \E c \in Calls : SendDrainFails(c)

Spec == Init /\ [][Next]_vars

(***************************************************************************)
(* SpecBytes: one connection, left alone by the callers, on which the      *)
(* server sends any byte stream, read in any chunking.                     *)
(***************************************************************************)
NextBytes ==
    \/ \E c \in Calls : c = MaxConn + 1 /\ CallConnect(c, "bbs")
    \/ \E c \in Calls : ConnectOpens(c, ByteStreams, {FALSE})
    \/ \E t \in Tasks : TaskStart(t)
    \/ \E t \in Tasks : ReadChunk(t, FALSE)
    \/ \E t \in Tasks : DrainedNegotiation(t)

SpecBytes == Init /\ [][NextBytes]_vars

(***************************************************************************)
(* SpecProbes: one connection, left alone by the callers, on which the     *)
(* server sends a subnegotiation or display data with terminal probes,     *)
(* read in any chunking.                                                   *)
(***************************************************************************)
NextProbes ==
    \/ \E c \in Calls : c = MaxConn + 1 /\ CallConnect(c, "bbs")
    \/ \E c \in Calls : ConnectOpens(c, TerminalStreams, {FALSE})
    \/ \E t \in Tasks : TaskStart(t)
    \/ \E t \in Tasks : ReadChunk(t, FALSE)
    \/ \E t \in Tasks : DrainedNegotiation(t)
    \/ \E t \in Tasks : DrainedProbe(t)

SpecProbes == Init /\ [][NextProbes]_vars

(***************************************************************************)
(* SpecRaise: SpecProbes with callbacks subscribed to DATA_RECEIVED before *)
(* the connection is made, one of them the callback that raises.           *)
(***************************************************************************)
DataSubscribers == {<<"boom">>, <<"a", "boom">>, <<"boom", "a">>, <<"a">>}

InitRaise ==
    /\ connected = FALSE
    /\ reader = 0
    /\ writer = 0
    /\ read_task = 0
    /\ proc = [p \in Procs |-> IF p \in Tasks THEN NoProc("none") ELSE NoProc("idle")]
    /\ stream = [s \in 1..MaxConn |-> NoStream]
    /\ nconn = 0
    /\ events = << >>
    /\ subscribers \in {[event_type \in {"DATA_RECEIVED"} |-> list] : list \in DataSubscribers}
    /\ last = NoCall
    /\ feeds = << >>
    /\ to_parser = << >>

SpecRaise == InitRaise /\ [][NextProbes]_vars

(***************************************************************************)
(* SpecDecode: one connection on which the server sends display data of    *)
(* every byte value, read whole.                                           *)
(***************************************************************************)
NextDecode ==
    \/ \E c \in Calls : c = MaxConn + 1 /\ CallConnect(c, "bbs")
    \/ \E c \in Calls : ConnectOpens(c, DecodeStreams, {FALSE})
    \/ \E t \in Tasks : TaskStart(t)
    \/ \E t \in Tasks : ReadChunk(t, TRUE)

SpecDecode == Init /\ [][NextDecode]_vars

(***************************************************************************)
(* Vocabulary of the properties.                                           *)
(***************************************************************************)
RECURSIVE Flatten(_)
Flatten(seqs) == IF seqs = << >> THEN << >> ELSE Head(seqs) \o Flatten(Tail(seqs))

\* The text of the data-received notifications of connection s, in order.
RECURSIVE TextOf(_, _)
TextOf(evs, s) ==
    IF evs = << >> THEN << >>
    ELSE (IF Head(evs).type = "DATA_RECEIVED" /\ Head(evs).conn = s
             THEN Head(evs).data ELSE << >>) \o TextOf(Tail(evs), s)

ReceivedText(s) == TextOf(events, s)

\* The complete telnet commands of a byte string, as the protocol frames
\* them: IAC verb option, IAC SB ... IAC SE, and IAC with any other byte.
RECURSIVE TelnetCommands(_, _)
TelnetCommands(data, i) ==
    IF i >= Len(data) THEN {}
    ELSE IF data[i] # 255 THEN TelnetCommands(data, i + 1)
    ELSE IF data[i + 1] \in 251..254 THEN
        IF i + 2 <= Len(data)
        THEN {[from |-> i, to |-> i + 2, kind |-> "negotiation"]}
                 \cup TelnetCommands(data, i + 3)
        ELSE {}
    ELSE IF data[i + 1] = 250 THEN
        LET ends == {e \in (i + 2)..(Len(data) - 1) : data[e] = 255 /\ data[e + 1] = 240}
        IN  IF ends = {} THEN {}
            ELSE LET e == CHOOSE x \in ends : \A y \in ends : x <= y
                 IN  {[from |-> i, to |-> e + 1, kind |-> "subnegotiation"]}
                         \cup TelnetCommands(data, e + 2)
    ELSE {[from |-> i, to |-> i + 1,
           kind |-> IF data[i + 1] = 255 THEN "escape" ELSE "command"]}
             \cup TelnetCommands(data, i + 2)

\* Task t has read all of its stream in exactly two chunks and is back in
\* reader.read; First is the length of the first chunk.
ReadInTwo(t) ==
    /\ proc[t].pc = "read"
    /\ stream[proc[t].rd].reads = 2
    /\ stream[proc[t].rd].inbound = << >>

First(t) == Len(stream[proc[t].rd].sent) - Len(proc[t].raw_bytes)

\* Task t has read the first n bytes of its stream as its only chunk so far
\* and is back in reader.read.
ReadFirst(t, n) ==
    /\ proc[t].pc = "read"
    /\ stream[proc[t].rd].reads = 1
    /\ Len(proc[t].raw_bytes) = n

(***************************************************************************)
(* C1.  When the read loop processes the inbound bytes IAC DO NAWS, the    *)
(* bytes written in reply are exactly IAC WILL NAWS immediately followed   *)
(* by IAC SB NAWS 0 80 0 24 IAC SE.                                        *)
(***************************************************************************)
C1_NawsReply ==
    \A t \in Tasks :
        ReadFirst(t, 3) /\ proc[t].raw_bytes = <<255, 253, 31>>
        => stream[proc[t].rd].written
               = <<255, 251, 31>> \o <<255, 250, 31, 0, 80, 0, 24, 255, 240>>

C1_Witness ==
    \E t \in Tasks :
        /\ ReadFirst(t, 3) /\ proc[t].raw_bytes = <<255, 253, 31>>
        /\ Len(stream[proc[t].rd].written) = 12

(***************************************************************************)
(* C2.  Every negotiation command gets exactly one 3-byte reply: DO o is   *)
(* answered WILL o for TERMINAL_TYPE (24) and NAWS (31) and WONT o         *)
(* otherwise, DONT o is answered WONT o, WILL o is answered DO o for ECHO  *)
(* (1) and SUPPRESS_GO_AHEAD (3) and DONT o otherwise, WONT o is answered  *)
(* DONT o.  Nothing else is written, but for the window-size               *)
(* subnegotiation that follows WILL NAWS (C1).                             *)
(***************************************************************************)
C2_Reply(v, o) ==
    CASE v = 253 -> IF o \in {24, 31} THEN <<255, 251, o>> ELSE <<255, 252, o>>
      [] v = 254 -> <<255, 252, o>>
      [] v = 251 -> IF o \in {1, 3} THEN <<255, 253, o>> ELSE <<255, 254, o>>
      [] v = 252 -> <<255, 254, o>>

C2_IsCommand(raw) == Len(raw) = 3 /\ raw[1] = 255 /\ raw[2] \in 251..254

C2_NegotiationTable ==
    \A t \in Tasks :
        ReadFirst(t, 3) /\ C2_IsCommand(proc[t].raw_bytes)
        => LET v == proc[t].raw_bytes[2]
               o == proc[t].raw_bytes[3]
               written == stream[proc[t].rd].written
           IN  /\ Len(written) >= 3
               /\ SubSeq(written, 1, 3) = C2_Reply(v, o)
               /\ Len(written) > 3
                    => /\ v = 253 /\ o = 31
                       /\ SubSeq(written, 4, Len(written))
                              = <<255, 250, 31, 0, 80, 0, 24, 255, 240>>

C2_Witness ==
    /\ \E t \in Tasks : ReadFirst(t, 3) /\ proc[t].raw_bytes = <<255, 251, 3>>
                        /\ stream[proc[t].rd].written = <<255, 253, 3>>

(***************************************************************************)
(* C3.  A negotiation command split across two consecutive read chunks,    *)
(* after IAC or after the command byte, is interpreted as if it had        *)
(* arrived in one chunk: the same reply is written and the same display    *)
(* data is forwarded.                                                      *)
(***************************************************************************)
C3_SplitInNegotiation(t) ==
    \E cmd \in TelnetCommands(stream[proc[t].rd].sent, 1) :
        cmd.kind = "negotiation" /\ cmd.from <= First(t) /\ First(t) < cmd.to

C3_SplitCommandBuffered ==
    \A t \in Tasks :
        ReadInTwo(t) /\ C3_SplitInNegotiation(t)
        => LET whole == ProcessTelnetData(stream[proc[t].rd].sent)
           IN  /\ ReceivedText(proc[t].rd) = Decode(whole.result)
               /\ stream[proc[t].rd].written = Flatten(whole.replies)

(***************************************************************************)
(* C4.  When a chunk ends inside a subnegotiation, no byte of that         *)
(* subnegotiation, in this chunk or in the next up to its IAC SE, is       *)
(* forwarded as display data, and no error is raised.                      *)
(***************************************************************************)
C4_SplitInSubnegotiation(t) ==
    \E cmd \in TelnetCommands(stream[proc[t].rd].sent, 1) :
        cmd.kind = "subnegotiation" /\ cmd.from + 1 <= First(t) /\ First(t) < cmd.to

C4_TruncatedSubnegotiationHeld ==
    \A t \in Tasks :
        /\ proc[t].res # "error"
        /\ ReadInTwo(t) /\ C4_SplitInSubnegotiation(t)
           => ReceivedText(proc[t].rd)
                  = Decode(ProcessTelnetData(stream[proc[t].rd].sent).result)

(***************************************************************************)
(* C5.  Within one chunk, the display data returned by IAC processing is   *)
(* the input with every complete telnet command removed and every escaped  *)
(* pair 255,255 replaced by a single 255, all other bytes forwarded in     *)
(* order.  As amended: an incomplete command at the end of the chunk (a    *)
(* lone IAC, IAC and a verb without its option, IAC SB without a later     *)
(* IAC SE) is dropped, with every byte after it in the chunk.              *)
(***************************************************************************)
\* The input without its complete commands; `held` says whether the bytes
\* from an incomplete command on are dropped, or forwarded like any other.
RECURSIVE C5_Strip(_, _)
C5_Strip(d, held) ==
    LET rest(n) == SubSeq(d, n + 1, Len(d))
        incomplete == IF held THEN << >> ELSE <<Head(d)>> \o C5_Strip(Tail(d), held)
    IN
    IF d = << >> THEN << >>
    ELSE IF Head(d) # 255 THEN <<Head(d)>> \o C5_Strip(Tail(d), held)
    ELSE IF Len(d) = 1 THEN incomplete
    ELSE IF d[2] = 255 THEN <<255>> \o C5_Strip(rest(2), held)
    ELSE IF d[2] \in 251..254 THEN
        IF Len(d) >= 3 THEN C5_Strip(rest(3), held) ELSE incomplete
    ELSE IF d[2] = 250 THEN
        IF \E e \in 3..(Len(d) - 1) : d[e] = 255 /\ d[e + 1] = 240
        THEN LET e == CHOOSE x \in 3..(Len(d) - 1) :
                          /\ d[x] = 255 /\ d[x + 1] = 240
                          /\ \A y \in 3..(x - 1) : ~(d[y] = 255 /\ d[y + 1] = 240)
             IN  C5_Strip(rest(e + 1), held)
        ELSE incomplete
    ELSE C5_Strip(rest(2), held)

C5_Processed(t) == proc[t].pc = "read" /\ stream[proc[t].rd].reads >= 1

C5_DisplayData ==
    \A t \in Tasks :
        C5_Processed(t) => proc[t].processed_data = C5_Strip(proc[t].raw_bytes, TRUE)

C5_Original ==
    \A t \in Tasks :
        C5_Processed(t) => proc[t].processed_data = C5_Strip(proc[t].raw_bytes, FALSE)

C5_Witness ==
    \E t \in Tasks :
        /\ C5_Processed(t)
        /\ proc[t].raw_bytes = <<65, 255, 255, 255, 253>>
        /\ proc[t].processed_data = <<65, 255>>

\* The indices of the notifications of one type published by coroutine p.
PublishedBy(evs, type, p) ==
    {i \in 1..Len(evs) : evs[i].type = type /\ evs[i].by = p}

\* The step in which coroutine p returns with res.
Returns(p, res) == proc[p].pc # "done" /\ proc'[p].pc = "done" /\ proc'[p].res = res

\* The step in which call c is made, as operation op.
Called(c, op) == proc[c].pc = "idle" /\ proc'[c].op = op

\* The last notification published came from the disconnect() that read
\* loop t ran on EOF.
AfterEOF(t) ==
    /\ proc[t].res = "eof"
    /\ events # << >>
    /\ events[Len(events)] = EvDisconnected(NoError, t)

(***************************************************************************)
(* C6.  An empty read on a connected transport causes exactly one          *)
(* disconnected notification, without an error field: the read loop that   *)
(* read it publishes this one notification when it ends, leaving connected *)
(* false and reader and writer None; and a send() called after it (nothing *)
(* else published since) fails as not connected, writing and publishing    *)
(* nothing.                                                                *)
(***************************************************************************)
C6_EofStep ==
    \A t \in Tasks :
        /\ Returns(t, "eof")
           => /\ events' = Append(events, EvDisconnected(NoError, t))
              /\ PublishedBy(events', "DISCONNECTED", t) = {Len(events')}
              /\ events'[Len(events')].keys = {}
              /\ ~connected' /\ reader' = 0 /\ writer' = 0
        /\ AfterEOF(t)
           => /\ ~connected /\ reader = 0 /\ writer = 0
              /\ \A c \in Calls :
                    Called(c, "send")
                    => /\ Returns(c, "not_connected")
                       /\ events' = events
                       /\ stream' = stream

C6_EofDisconnects == [][C6_EofStep]_vars

C6_Witness ==
    \E t \in Tasks, c \in Calls :
        /\ AfterEOF(t)
        /\ stream[proc[t].rd].reads >= 1
        /\ proc[c].op = "send" /\ proc[c].res = "not_connected"

(***************************************************************************)
(* C7.  On a read error the read loop calls disconnect() and exits: when   *)
(* it has exited, the stream is closed, reader and writer are None and     *)
(* connected is false, as after EOF.                                       *)
(***************************************************************************)
C7_ErrorStep ==
    \A t \in Tasks :
        Returns(t, "error") /\ proc[t].pc = "read"
        => /\ ~connected'
           /\ reader' = 0 /\ writer' = 0
           /\ stream'[proc[t].rd].closed

C7_ReadErrorDisconnects == [][C7_ErrorStep]_vars

(***************************************************************************)
(* C8.  Whenever connect() returns False, a disconnected notification      *)
(* carrying the error has been published, connected is false, no stream    *)
(* opened during the call is left open and no read loop was started.       *)
(***************************************************************************)
C8_FailStep ==
    \A c \in Calls :
        Returns(c, "false") /\ proc[c].op = "connect"
        => /\ events'[Len(events')].type = "DISCONNECTED"
           /\ events'[Len(events')].keys = {"error"}
           /\ events'[Len(events')].by = c
           /\ ~connected'
           /\ \A n \in (nconn + 1)..nconn' : stream'[n].closed
           /\ read_task' = read_task

C8_FailedConnectReleases == [][C8_FailStep]_vars

(***************************************************************************)
(* C9.  A successful connect() sets connected, publishes one connected     *)
(* notification carrying the host and port it was called with, starts the  *)
(* read loop and returns True; and no data-received notification of a      *)
(* connection comes before the connected notification of that connection.  *)
(***************************************************************************)
C9_ConnectStep ==
    /\ \A c \in Calls :
          Returns(c, "true")
          => /\ connected'
             /\ nconn' = nconn + 1
             /\ reader' = nconn' /\ writer' = nconn'
             /\ events' = Append(events, EvConnected(proc[c].host, Port, nconn', c))
             /\ proc[c].host \in Hosts
             /\ PublishedBy(events', "CONNECTED", c) = {Len(events')}
             /\ proc[nconn'].pc = "none" /\ proc'[nconn'].pc = "new"
             /\ read_task' = nconn'
    /\ \A i \in 1..Len(events') :
          events'[i].type = "DATA_RECEIVED"
          => \E j \in 1..(i - 1) :
                 events'[j].type = "CONNECTED" /\ events'[j].conn = events'[i].conn

C9_ConnectThenData == [][C9_ConnectStep]_vars

C9_Witness ==
    \E c \in Calls, i, j \in 1..Len(events) :
        /\ proc[c].res = "true"
        /\ j < i
        /\ events[j] = EvConnected("bbs", Port, 1, c)
        /\ events[i].type = "DATA_RECEIVED" /\ events[i].conn = 1

(***************************************************************************)
(* C10.  disconnect() is safe in every state.  Called in any state, it     *)
(* cancels the read loop if one is running; past the wait for the loop it  *)
(* closes the stream if there is a writer; and it returns without error    *)
(* with connected false, reader and writer None, having published a        *)
(* disconnected notification without an error field as its last act.  A    *)
(* cancelled read loop reads no more.                                      *)
(***************************************************************************)
C10_DisconnectStep ==
    /\ \A c \in Calls :
          /\ Called(c, "disconnect") /\ read_task # 0
             => \/ proc'[read_task].pc = "done"
                \/ proc'[read_task].must_cancel /\ proc'[c].pc = "d_wait"
          /\ /\ proc[c].pc = "idle" \/ (proc[c].op = "disconnect" /\ proc[c].pc = "d_wait")
             /\ proc'[c].op = "disconnect" /\ proc'[c].pc \in {"d_close", "done"}
             /\ writer # 0
             => proc'[c].pc = "d_close" /\ stream'[writer].closed
          /\ proc[c].pc # "done" /\ proc'[c].pc = "done" /\ proc'[c].op = "disconnect"
             => /\ proc'[c].res = "ok"
                /\ ~connected' /\ reader' = 0 /\ writer' = 0
                /\ events' = Append(events, EvDisconnected(NoError, c))
                /\ events'[Len(events')].keys = {}
    /\ \A t \in Tasks :
          proc[t].must_cancel /\ proc'[t] # proc[t]
          => /\ proc'[t].pc # "read"
             /\ proc[t].rd # 0 => stream'[proc[t].rd].reads = stream[proc[t].rd].reads
             /\ PublishedBy(events', "DATA_RECEIVED", t)
                    = PublishedBy(events, "DATA_RECEIVED", t)

C10_DisconnectSafe == [][C10_DisconnectStep]_vars

C10_Witness ==
    \E c \in Calls, t \in Tasks :
        /\ proc[c].op = "disconnect" /\ proc[c].res = "ok"
        /\ proc[t].res = "cancelled"
        /\ stream[t].closed
        /\ ~connected /\ reader = 0 /\ writer = 0
        /\ events[Len(events)] = EvDisconnected(NoError, c)

\* Nothing of the transport but the locals of coroutine p changes.
OnlyLocalsOf(p) ==
    /\ connected' = connected /\ reader' = reader /\ writer' = writer
    /\ read_task' = read_task /\ nconn' = nconn
    /\ stream' = stream /\ events' = events
    /\ \A q \in Procs \ {p} : proc'[q] = proc[q]

(***************************************************************************)
(* C11.  send(text) called while connected is false fails at once with the *)
(* not-connected error: it writes no byte to any stream, publishes no      *)
(* notification and leaves connected, reader, writer, the read task and    *)
(* every other coroutine as they were.                                     *)
(***************************************************************************)
C11_SendStep ==
    \A c \in Calls :
        Called(c, "send") /\ ~connected
        => /\ Returns(c, "not_connected")
           /\ OnlyLocalsOf(c)
           /\ PublishedBy(events', "DATA_SENT", c) = {}

C11_SendNotConnected == [][C11_SendStep]_vars

C11_Witness ==
    \E c \in Calls :
        /\ proc[c].op = "send" /\ proc[c].res = "not_connected"
        /\ nconn = 1 /\ writer = 1 /\ ~connected
        /\ stream[1].written = << >>

(***************************************************************************)
(* C12.  send(text) called while connected writes the UTF-8 encoding of    *)
(* the text to the stream and publishes nothing before the flush; when the *)
(* flush returns it publishes exactly one data-sent notification, carrying *)
(* the text as it was given; when the encoding or the flush fails it       *)
(* publishes none.                                                         *)
(***************************************************************************)
C12_SendStep ==
    \A c \in Calls :
        /\ Called(c, "send") /\ connected /\ writer # 0
           => /\ events' = events
              /\ proc'[c].pc = "s_drain"
                    => stream'[writer].written
                           = stream[writer].written \o Encode(proc'[c].data)
              /\ proc'[c].data = <<233>>
                    => /\ proc'[c].pc = "s_drain"
                       /\ Len(stream'[writer].written) = Len(stream[writer].written) + 2
                       /\ SubSeq(stream'[writer].written,
                                 Len(stream[writer].written) + 1,
                                 Len(stream'[writer].written)) = <<195, 169>>
        /\ proc[c].pc = "s_drain" /\ proc'[c].pc # "s_drain"
           => /\ stream' = stream
              /\ \/ /\ Returns(c, "ok")
                    /\ events' = Append(events, EvDataSent(proc[c].data, c))
                    /\ PublishedBy(events', "DATA_SENT", c) = {Len(events')}
                 \/ /\ Returns(c, "raised")
                    /\ events' = events
        /\ proc'[c].res # "ok" => PublishedBy(events', "DATA_SENT", c) = {}

C12_SendConnected == [][C12_SendStep]_vars

C12_Witness ==
    \E c \in Calls :
        /\ proc[c].op = "send" /\ proc[c].res = "ok"
        /\ events[Len(events)] = EvDataSent(<<233>>, c)
        /\ Contains(stream[1].written, <<195, 169>>)

\* The read loops that are running: suspended at an await of the loop, not
\* merely created and not ended.
ActiveReadLoops == {t \in Tasks : proc[t].pc \notin {"none", "new", "done"}}

(***************************************************************************)
(* C13.  At most one read loop is active at any time, in every             *)
(* interleaving in which each connect() is called while connected is       *)
(* false, two connect() calls that overlap included.                       *)
(***************************************************************************)
C13_OneReadLoop == Cardinality(ActiveReadLoops) <= 1

\* What has happened on the streams: bytes read, bytes written, closes.
StreamIO(st) ==
    [n \in 1..MaxConn |-> <<st[n].inbound, st[n].reads, st[n].written, st[n].closed>>]

\* The read loop a disconnect() call found in _read_task and cancelled.
CancelledBy(c) == IF proc[c].pc = "idle" THEN read_task ELSE proc[c].aw

(***************************************************************************)
(* C14.  Cancellation of the read loop is prompt.  A read loop that a      *)
(* disconnect() call from outside is waiting for, or that has a            *)
(* cancellation pending at an await of the loop, makes one more step only: *)
(* it ends as cancelled, having read and written nothing and published     *)
(* nothing.  When the disconnect() call returns, the loop it cancelled has *)
(* ended, and a loop that has ended does nothing more.                     *)
(***************************************************************************)
C14_CancelStep ==
    /\ \A t \in Tasks :
          /\ proc[t].pc \in {"new", "read", "neg", "probe"}
          /\ proc'[t] # proc[t]
          /\ \/ proc[t].must_cancel
             \/ \E c \in Calls : proc[c].pc = "d_wait" /\ proc[c].aw = t
          => /\ Returns(t, "cancelled")
             /\ events' = events
             /\ StreamIO(stream') = StreamIO(stream)
    /\ \A c \in Calls :
          proc[c].pc # "done" /\ proc'[c].pc = "done" /\ proc'[c].op = "disconnect"
          => \/ CancelledBy(c) = 0
             \/ proc'[CancelledBy(c)].pc = "done"
    /\ \A t \in Tasks : proc[t].pc = "done" => proc'[t] = proc[t]

C15_BecomesConnected ==
    ~connected /\ connected' => \E c \in Calls : Returns(c, "true")

C15_BecomesDisconnected ==
    connected /\ ~connected'
    => \/ \E c \in Calls : Returns(c, "ok") /\ proc'[c].op = "disconnect"
       \/ \E t \in Tasks : Returns(t, "eof") \/ Returns(t, "error")

C15_WriterHeld == connected' => writer' # 0

C15_TransitionStep ==
    C15_BecomesConnected /\ C15_BecomesDisconnected /\ C15_WriterHeld

C15_Transitions == [][C15_TransitionStep]_vars

\* Task t has read its whole stream as one chunk and is back in reader.read.
ReadWhole(t) ==
    /\ ReadFirst(t, Len(stream[proc[t].rd].sent))
    /\ proc[t].raw_bytes = stream[proc[t].rd].sent

(***************************************************************************)
(* C16.  On the terminal-type subnegotiation SEND request IAC SB 24 1 IAC  *)
(* SE the transport writes exactly IAC SB 24 0 'A' 'N' 'S' 'I' IAC SE;     *)
(* every other subnegotiation (another option, an empty body, terminal     *)
(* type with another command or none) is consumed without a reply.  No     *)
(* subnegotiation is forwarded as display data.                            *)
(***************************************************************************)
C16_IsSend(raw) == Len(raw) >= 6 /\ raw[3] = 24 /\ raw[4] = 1

C16_TerminalTypeReply ==
    \A t \in Tasks :
        ReadWhole(t) /\ proc[t].raw_bytes \in Subnegotiations
        => /\ stream[proc[t].rd].written
                 = IF C16_IsSend(proc[t].raw_bytes)
                   THEN <<255, 250, 24, 0, 65, 78, 83, 73, 255, 240>>
                   ELSE << >>
           /\ proc[t].processed_data = << >>
           /\ events[Len(events)].type = "CONNECTED"

C16_Witness ==
    \E t \in Tasks :
        /\ ReadWhole(t)
        /\ proc[t].raw_bytes = <<255, 250, 24, 1, 255, 240>>
        /\ stream[proc[t].rd].written = <<255, 250, 24, 0, 65, 78, 83, 73, 255, 240>>

\* Task t has read and processed all of its stream and is back in
\* reader.read.
ReadAll(t) ==
    /\ proc[t].pc = "read"
    /\ stream[proc[t].rd].reads >= 1
    /\ stream[proc[t].rd].inbound = << >>

(***************************************************************************)
(* C17.  Whenever the forwarded display data contains ESC[6n the transport *)
(* writes ESC[24;80R on the same connection, whenever it contains ESC[c or *)
(* ESC[0c it writes ESC[?1;0c, and data with neither probe triggers no     *)
(* probe reply.                                                            *)
(***************************************************************************)
C17_ProbesAnswered ==
    \A t \in Tasks :
        ReadAll(t)
        => LET text == ReceivedText(proc[t].rd)
               written == stream[proc[t].rd].written
               cpr == Contains(text, <<27, 91, 54, 110>>)
               da == Contains(text, <<27, 91, 99>>) \/ Contains(text, <<27, 91, 48, 99>>)
           IN  /\ cpr <=> Contains(written, <<27, 91, 50, 52, 59, 56, 48, 82>>)
               /\ da <=> Contains(written, <<27, 91, 63, 49, 59, 48, 99>>)

(***************************************************************************)
(* C18.  The terminal-probe scan does not consume or alter display data:   *)
(* for every chunk, the data-received notification carries the decoding of *)
(* exactly the bytes IAC processing returned, probe sequences included,    *)
(* whether or not a probe reply was written; a chunk without display data  *)
(* publishes nothing.                                                      *)
(***************************************************************************)
C18_ChunkStep ==
    \A t \in Tasks :
        proc[t].pc \in {"read", "neg", "probe"} /\ proc'[t].pc = "read"
        => LET out == ProcessTelnetData(proc'[t].raw_bytes).result
           IN  IF out = << >> THEN events' = events
               ELSE /\ Len(events') = Len(events) + 1
                    /\ events'[Len(events')].type = "DATA_RECEIVED"
                    /\ events'[Len(events')].by = t
                    /\ events'[Len(events')].data = Decode(out)
                    /\ Len(events'[Len(events')].data) = Len(out)
                    /\ \A k \in 1..Len(out) :
                          out[k] < 128 => events'[Len(events')].data[k] = out[k]

C18_ProbesForwarded == [][C18_ChunkStep]_vars

C18_Witness ==
    \E t \in Tasks :
        /\ ReadWhole(t)
        /\ proc[t].raw_bytes = <<65, 27, 91, 54, 110, 27, 91, 99>>
        /\ Len(stream[proc[t].rd].written) = 15
        /\ events[Len(events)] = EvDataReceived(<<65, 27, 91, 54, 110, 27, 91, 99>>, proc[t].rd, t)

C20_FailStep ==
    \A c \in Calls :
        /\ Called(c, "send") /\ connected /\ writer # 0 /\ ~Encodable(proc'[c].data)
           => Returns(c, "raised") /\ OnlyLocalsOf(c)
        /\ proc[c].op = "send" /\ Returns(c, "raised")
           => OnlyLocalsOf(c)

C20_SendFailureLocal == [][C20_FailStep]_vars

C20_Witness ==
    \E c \in Calls, t \in Tasks :
        /\ proc[c].op = "send" /\ proc[c].res = "raised" /\ proc[c].data = <<55296>>
        /\ connected /\ reader = t /\ writer = t /\ read_task = t
        /\ proc[t].pc = "read" /\ ~proc[t].must_cancel
        /\ stream[t].inbound # << >>
        /\ stream[t].written = << >>

(***************************************************************************)
(* The calls made on the event bus.                                        *)
(***************************************************************************)
EventBusSubscribe(event_type, callback) ==
    /\ event_type \in DOMAIN subscribers => Len(subscribers[event_type]) < MaxSubs
    /\ subscribers' = Subscribed(subscribers, event_type, callback)
    /\ last' = [NoCall EXCEPT !.op = "subscribe", !.event_type = event_type,
                              !.callback = callback, !.res = "returned"]
    /\ UNCHANGED clientVars
    /\ UNCHANGED emulatorVars

EventBusUnsubscribe(event_type, callback) ==
    /\ last' = [NoCall EXCEPT !.op = "unsubscribe", !.event_type = event_type,
                              !.callback = callback,
                              !.res = Unsubscribed(subscribers, event_type, callback).res]
    /\ subscribers' = Unsubscribed(subscribers, event_type, callback).subscribers
    /\ UNCHANGED clientVars
    /\ UNCHANGED emulatorVars

EventBusPublish(event) ==
    /\ LET d == IF event.event_type \in DOMAIN subscribers
                THEN Deliver(subscribers, event, 1, << >>)
                ELSE [subscribers |-> subscribers, invoked |-> << >>, res |-> "returned"]
       IN  /\ last' = [NoCall EXCEPT !.op = "publish", !.event_type = event.event_type,
                                     !.event = event, !.invoked = d.invoked,
                                     !.res = d.res]
           /\ subscribers' = d.subscribers
    /\ UNCHANGED clientVars
    /\ UNCHANGED emulatorVars

NextBus ==
    \/ \E event_type \in EventTypes, callback \in BusCallbacks :
           EventBusSubscribe(event_type, callback)
    \/ \E event_type \in EventTypes, callback \in BusCallbacks :
           EventBusUnsubscribe(event_type, callback)
    \/ \E event \in BusEvents : EventBusPublish(event)

SpecBus == Init /\ [][NextBus]_vars

\* The callbacks registered for a type: the list under its key, none when
\* the key is absent.
Registered(subs, event_type) ==
    IF event_type \in DOMAIN subs THEN subs[event_type] ELSE << >>

Occurrences(list, x) == Cardinality({k \in 1..Len(list) : list[k] = x})

(***************************************************************************)
(* C21.  publish(event) has invoked, when it returns, every callback       *)
(* registered for the event's type, once per registration and in the order *)
(* of registration, each with the event published; a callback registered   *)
(* only for other types is not invoked, and with no subscriber of the type *)
(* nothing is invoked and nothing changes.  The order of registration is   *)
(* the order of the subscribe calls: subscribe adds the callback after the *)
(* registrations the type already has and leaves the other types alone.    *)
(***************************************************************************)
C21_PublishStep ==
    /\ last'.op = "publish" /\ last'.res = "returned" =>
           LET regs == Registered(subscribers, last'.event_type)
           IN  /\ last'.event.event_type = last'.event_type
               /\ Len(last'.invoked) = Len(regs)
               /\ \A i \in 1..Len(regs) :
                      /\ last'.invoked[i].callback = regs[i]
                      /\ last'.invoked[i].event = last'.event
               /\ \A callback \in BusCallbacks :
                      Occurrences(regs, callback) = 0 =>
                          \A i \in 1..Len(last'.invoked) :
                              last'.invoked[i].callback # callback
               /\ subscribers' = subscribers
    /\ last'.op = "subscribe" /\ subscribers' # subscribers =>
           /\ Registered(subscribers', last'.event_type) =
                  Registered(subscribers, last'.event_type) \o <<last'.callback>>
           /\ \A t \in EventTypes \ {last'.event_type} :
                  Registered(subscribers', t) = Registered(subscribers, t)

C21_PublishInvokesSubscribers == [][C21_PublishStep]_vars

C21_Witness ==
    /\ last.op = "publish" /\ last.res = "returned"
    /\ last.event = [event_type |-> "DATA_RECEIVED", data |-> "test"]
    /\ Registered(subscribers, "DATA_RECEIVED") = <<"b", "a", "b">>
    /\ Registered(subscribers, "CONNECTED") = <<"boom">>
    /\ Len(last.invoked) = 3

\* The call before this step was an unsubscribe that removed a registration
\* of last.callback, and this step publishes an event of the same type.
PublishAfterUnsubscribe ==
    /\ last.op = "unsubscribe" /\ last.res = "returned"
    /\ last.event_type \in DOMAIN subscribers
    /\ last'.op = "publish" /\ last'.event_type = last.event_type

Without(list, x) == SelectSeq(list, LAMBDA y : y # x)

InvokedCallbacks(call) == [i \in 1..Len(call.invoked) |-> call.invoked[i].callback]

(***************************************************************************)
(* C22 as stated: after unsubscribe(type, callback) of a subscribed        *)
(* callback, a publish of that type does not invoke the callback.          *)
(***************************************************************************)
C22_UnsubscribedNotInvoked ==
    [][PublishAfterUnsubscribe =>
           Occurrences(InvokedCallbacks(last'), last.callback) = 0]_vars

(***************************************************************************)
(* C22, amended.  unsubscribe(type, callback) of a subscribed callback     *)
(* removes the earliest registration of the callback for the type and      *)
(* nothing else: the callback keeps its later registrations, the other     *)
(* callbacks of the type keep theirs in the same relative order, and the   *)
(* other types are untouched.  A publish of the type that follows and      *)
(* returns invokes the callback once per registration it still has, none   *)
(* when it was registered once, and the other callbacks in their original  *)
(* relative order.                                                         *)
(***************************************************************************)
C22_UnsubscribeStep ==
    /\ /\ last'.op = "unsubscribe"
       /\ Occurrences(Registered(subscribers, last'.event_type), last'.callback) > 0
       => LET before == Registered(subscribers, last'.event_type)
              after == Registered(subscribers', last'.event_type)
          IN  /\ last'.res = "returned"
              /\ Len(after) = Len(before) - 1
              /\ \E k \in 1..Len(before) :
                     /\ before[k] = last'.callback
                     /\ \A j \in 1..(k - 1) : before[j] # last'.callback
                     /\ \A j \in 1..Len(after) :
                            after[j] = IF j < k THEN before[j] ELSE before[j + 1]
              /\ Without(after, last'.callback) = Without(before, last'.callback)
              /\ \A t \in EventTypes \ {last'.event_type} :
                     Registered(subscribers', t) = Registered(subscribers, t)
    /\ PublishAfterUnsubscribe /\ last'.res = "returned"
       => /\ InvokedCallbacks(last') = Registered(subscribers, last.event_type)
          /\ subscribers' = subscribers

C22_UnsubscribeRemovesOne == [][C22_UnsubscribeStep]_vars

C22_Witness ==
    /\ last.op = "unsubscribe" /\ last.res = "returned"
    /\ last.event_type = "CONNECTED" /\ last.callback = "a"
    /\ "CONNECTED" \in DOMAIN subscribers
    /\ subscribers["CONNECTED"] = <<"b", "a">>

(***************************************************************************)
(* The terminal emulator.  Text is a sequence of code points.  The screen  *)
(* and its byte stream belong to the pyte package; what the emulator's own *)
(* code decides is the text it hands to that stream: feed() rewrites the   *)
(* SGR sequences of its argument and passes the result on, utf-8 encoded.  *)
(***************************************************************************)

\* _ANSI_PATTERN, ESC [ ([0-9;]*) m, tried at position i: the position of
\* the closing m, 0 when there is no match at i.
RECURSIVE ParamsEnd(_, _)
ParamsEnd(data, j) ==
    IF j <= Len(data) /\ data[j] \in (48..57) \cup {59}
    THEN ParamsEnd(data, j + 1) ELSE j

AnsiMatch(data, i) ==
    IF i + 1 <= Len(data) /\ data[i] = ESC /\ data[i + 1] = 91
    THEN LET j == ParamsEnd(data, i + 2)
         IN  IF j <= Len(data) /\ data[j] = 109 THEN j ELSE 0
    ELSE 0

\* str.split(sep) and sep.join(list)
RECURSIVE SplitAt(_, _, _)
SplitAt(s, sep, cur) ==
    IF s = << >> THEN <<cur>>
    ELSE IF Head(s) = sep THEN <<cur>> \o SplitAt(Tail(s), sep, << >>)
    ELSE SplitAt(Tail(s), sep, Append(cur, Head(s)))

StrSplit(s, sep) == SplitAt(s, sep, << >>)

RECURSIVE StrJoin(_, _)
StrJoin(sep, list) ==
    IF list = << >> THEN << >>
    ELSE IF Len(list) = 1 THEN list[1]
    ELSE list[1] \o <<sep>> \o StrJoin(sep, Tail(list))

\* A faulty variant of the loop body: a reset leaves the blink flag set.
RewriteCode_ResetKeepsBlink(code, has_blink) ==
    IF code = <<48>> \/ code = << >>
    THEN [has_blink |-> has_blink, new_codes |-> <<code>>]
    ELSE IF code = <<53>>
    THEN [has_blink |-> TRUE, new_codes |-> << >>]
    ELSE IF Len(code) = 2 /\ code[1] = 52 /\ code[2] \in 48..57
    THEN [has_blink |-> has_blink,
          new_codes |-> <<IF has_blink THEN <<49, 48, code[2]>> ELSE code>>]
    ELSE [has_blink |-> has_blink, new_codes |-> <<code>>]

\* The body of "for code in codes" (lines 80-98): the flag it leaves and
\* the codes it appends to new_codes.  current_bg is assigned but never
\* read, so it is not part of the state.
RewriteCode(code, has_blink) ==
    IF code = <<48>> \/ code = << >>
    THEN [has_blink |-> FALSE, new_codes |-> <<code>>]
    ELSE IF code = <<53>>
    THEN [has_blink |-> TRUE, new_codes |-> << >>]
    ELSE IF Len(code) = 2 /\ code[1] = 52 /\ code[2] \in 48..57
    THEN [has_blink |-> has_blink,
          new_codes |-> <<IF has_blink THEN <<49, 48, code[2]>> ELSE code>>]
    ELSE [has_blink |-> has_blink, new_codes |-> <<code>>]

RECURSIVE RewriteCodes(_, _, _, _)
RewriteCodes(codes, i, has_blink, new_codes) ==
    IF i > Len(codes) THEN [has_blink |-> has_blink, new_codes |-> new_codes]
    ELSE LET r == RewriteCode(codes[i], has_blink)
         IN  RewriteCodes(codes, i + 1, r.has_blink, new_codes \o r.new_codes)

\* "for match in finditer(data)" (lines 71-107): i is where the search
\* goes on, last_end the end of the last match.
RECURSIVE ConvertFrom(_, _, _, _, _)
ConvertFrom(data, i, last_end, has_blink, result) ==
    IF i > Len(data) THEN result \o SubSeq(data, last_end + 1, Len(data))
    ELSE LET m == AnsiMatch(data, i)
         IN  IF m = 0 THEN ConvertFrom(data, i + 1, last_end, has_blink, result)
             ELSE LET group == SubSeq(data, i + 2, m - 1)
                      codes == IF group # << >> THEN StrSplit(group, 59) ELSE <<<<48>>>>
                      r == RewriteCodes(codes, 1, has_blink, << >>)
                      sequence == IF r.new_codes # << >>
                                  THEN <<ESC, 91>> \o StrJoin(59, r.new_codes) \o <<109>>
                                  ELSE << >>
                  IN  ConvertFrom(data, m + 1, m, r.has_blink,
                                  result \o SubSeq(data, last_end + 1, i - 1) \o sequence)

\* TerminalEmulator._convert_ice_colors
ConvertIceColors(data) ==
    IF ~Contains(data, <<ESC, 91>>) THEN data
    ELSE ConvertFrom(data, 1, 0, FALSE, << >>)

\* TerminalEmulator.feed
Feed(data) ==
    /\ Encodable(data)
    /\ feeds' = Append(feeds, data)
    /\ to_parser' = to_parser \o Encode(ConvertIceColors(data))
    /\ UNCHANGED clientVars
    /\ UNCHANGED <<subscribers, last>>

(***************************************************************************)
(* Text for the emulator: one or two SGR sequences and a character.  The   *)
(* parameters are those the rewrite tells apart, empty, 0, 5, the          *)
(* backgrounds 40, 44 and 47, the default background 49, and bold 1, which *)
(* it passes on.                                                           *)
(***************************************************************************)
MaxParams == 2

MaxChunks == 2

SgrCodes == {<< >>, <<48>>, <<53>>, <<49>>, <<52, 48>>, <<52, 52>>, <<52, 55>>, <<52, 57>>}

CodeLists(n) == UNION {[1..k -> SgrCodes] : k \in 0..n}

SgrSequence(codes) == <<ESC, 91>> \o StrJoin(59, codes) \o <<109>>

IceTexts ==
    {SgrSequence(c1) \o between \o SgrSequence(c2) \o <<88>> :
         c1 \in CodeLists(MaxParams), c2 \in CodeLists(1), between \in {<< >>, <<88>>}}
    \cup {<<72, 105>>}

SplitTexts ==
    {SgrSequence(c1) \o SgrSequence(c2) \o <<88>> :
         c1 \in {<<<<53>>>>, <<<<53>>, <<52, 52>>>>, <<<<48>>>>, << >>},
         c2 \in {<<<<52, 52>>>>, <<<<49>>>>}}

\* One feed() of a whole text into a new emulator.
NextIce == \E data \in IceTexts : feeds = << >> /\ Feed(data)

SpecIce == Init /\ [][NextIce]_vars

\* A text fed in up to MaxChunks chunks, cut anywhere.
NextChunks ==
    \E t \in SplitTexts : \E n \in 1..Len(t) :
        LET done == Len(Flatten(feeds))
        IN  /\ Len(feeds) < MaxChunks
            /\ done < n /\ n <= Len(t)
            /\ SubSeq(t, 1, done) = Flatten(feeds)
            /\ Feed(SubSeq(t, done + 1, n))

SpecChunks == Init /\ [][NextChunks]_vars

(***************************************************************************)
(* BitmapTerminalWidget._get_char_color(char_obj, is_bg=True): the index   *)
(* into the 16-colour palette.  The stored background is a colour name, an *)
(* integer or None.                                                        *)
(***************************************************************************)
ColorMap ==
    [black |-> 0, red |-> 1, green |-> 2, yellow |-> 3,
     blue |-> 4, magenta |-> 5, cyan |-> 6, white |-> 7]

GetBackgroundIndex(bg, blink) ==
    IF bg.kind = "str" /\ bg.name = "default" THEN 0
    ELSE LET bg_num == IF bg.kind = "str"
                       THEN (IF bg.name \in DOMAIN ColorMap THEN ColorMap[bg.name] ELSE 0)
                       ELSE IF bg.kind = "int" THEN bg.num ELSE 0
         IN  (IF blink THEN bg_num + 8 ELSE bg_num) % 16

CellBackgrounds ==
    [kind : {"str"}, num : {0},
     name : DOMAIN ColorMap \cup {"default", "brown", "brightblue", "0000ff"}]
    \cup [kind : {"int"}, num : -17..33, name : {""}]
    \cup [kind : {"none"}, num : {0}, name : {""}]

(***************************************************************************)
(* Reading a text as a terminal does: its SGR sequences and, of each, the  *)
(* parameters in order, an empty parameter list standing for the single    *)
(* parameter 0.                                                            *)
(***************************************************************************)
RECURSIVE SgrGroups(_, _)
SgrGroups(text, i) ==
    IF i > Len(text) THEN << >>
    ELSE LET m == AnsiMatch(text, i)
         IN  IF m = 0 THEN SgrGroups(text, i + 1)
             ELSE <<SubSeq(text, i + 2, m - 1)>> \o SgrGroups(text, m + 1)

CodesOf(group) == IF group = << >> THEN <<<<48>>>> ELSE StrSplit(group, 59)

RECURSIVE Numbered(_, _)
Numbered(groups, n) ==
    IF n > Len(groups) THEN << >>
    ELSE [k \in 1..Len(CodesOf(groups[n])) |-> [seq |-> n, code |-> CodesOf(groups[n])[k]]]
         \o Numbered(groups, n + 1)

\* The parameters of all the SGR sequences of the text, in order, each with
\* the number of its sequence.
SgrParams(text) == Numbered(SgrGroups(text, 1), 1)

\* The text outside the SGR sequences.
RECURSIVE PlainText(_, _)
PlainText(text, i) ==
    IF i > Len(text) THEN << >>
    ELSE LET m == AnsiMatch(text, i)
         IN  IF m = 0 THEN <<text[i]>> \o PlainText(text, i + 1)
             ELSE PlainText(text, m + 1)

IsBlink(code) == code = <<53>>

IsReset(code) == code = <<48>> \/ code = << >>

\* 40..47 and 100..107
IsBackground(code) == Len(code) = 2 /\ code[1] = 52 /\ code[2] \in 48..55

IsBright(code) == Len(code) = 3 /\ code[1] = 49 /\ code[2] = 48 /\ code[3] \in 48..55

Bright(code) == <<49, 48, code[2]>>

\* Blink is in force at parameter k: a 5 came before it, with no reset
\* since.
BlinkAt(params, k) ==
    \E j \in 1..(k - 1) :
        /\ IsBlink(params[j].code)
        /\ \A i \in (j + 1)..(k - 1) : ~IsReset(params[i].code)

\* The positions of the parameters other than 5.
KeptIdx(params) ==
    SelectSeq([k \in 1..Len(params) |-> k], LAMBDA k : ~IsBlink(params[k].code))

\* An empty parameter is the parameter 0.
Canonical(code) == IF code = << >> THEN <<48>> ELSE code

OneFeed == Len(feeds) = 1

\* The background a stream of SGR parameters leaves in force, as an index
\* into the 16 colours: 4x selects x and 10x selects x + 8, 49 and a reset
\* select the default 0, and blink in force adds 8 to a colour 0..7 that
\* was selected.
RECURSIVE BackgroundAfter(_, _, _, _)
BackgroundAfter(params, k, bg, blink) ==
    IF k > Len(params)
    THEN (IF bg = -1 THEN 0 ELSE IF blink /\ bg < 8 THEN bg + 8 ELSE bg)
    ELSE LET code == params[k].code
         IN  IF IsReset(code) THEN BackgroundAfter(params, k + 1, -1, FALSE)
             ELSE IF IsBlink(code) THEN BackgroundAfter(params, k + 1, bg, TRUE)
             ELSE IF IsBackground(code)
                  THEN BackgroundAfter(params, k + 1, code[2] - 48, blink)
             ELSE IF IsBright(code)
                  THEN BackgroundAfter(params, k + 1, code[3] - 48 + 8, blink)
             ELSE IF code = <<52, 57>> THEN BackgroundAfter(params, k + 1, -1, blink)
             ELSE BackgroundAfter(params, k + 1, bg, blink)

EffectiveBackground(text) == BackgroundAfter(SgrParams(text), 1, -1, FALSE)

(***************************************************************************)
(* C26.  Feeding a text in chunks, cut anywhere, leaves the screen as one  *)
(* feed of the whole text does.  The screen is the byte stream's reading   *)
(* of what it has been handed, so the chunks must hand it the characters   *)
(* the whole text hands it and leave the background in force that the      *)
(* whole text leaves, whether the stream is told so by a bright-background *)
(* parameter or by blink and a background parameter.                       *)
(***************************************************************************)
C26_ChunksAsWhole ==
    feeds # << >> =>
        LET whole == Encode(ConvertIceColors(Flatten(feeds)))
        IN  /\ PlainText(to_parser, 1) = PlainText(whole, 1)
            /\ EffectiveBackground(to_parser) = EffectiveBackground(whole)

(***************************************************************************)
(* C27.  An SGR sequence that holds both the blink parameter 5 and a       *)
(* background parameter 40..47, in either order, is handed on with each of *)
(* its background parameters 4x turned into 10x, and no parameter 5 is     *)
(* handed on at all.                                                       *)
(***************************************************************************)
C27_BlinkWithBackground ==
    OneFeed =>
        LET params == SgrParams(feeds[1])
            rewritten == SgrParams(to_parser)
            kept == KeptIdx(params)
        IN  \A n \in 1..Len(params) :
                /\ \E k \in 1..Len(params) : params[k].seq = n /\ IsBlink(params[k].code)
                /\ \E k \in 1..Len(params) : params[k].seq = n /\ IsBackground(params[k].code)
                => /\ Len(rewritten) = Len(kept)
                   /\ \A j \in 1..Len(kept) :
                          params[kept[j]].seq = n /\ IsBackground(params[kept[j]].code)
                          => rewritten[j].code = Bright(params[kept[j]].code)
                   /\ \A j \in 1..Len(rewritten) : ~IsBlink(rewritten[j].code)

(***************************************************************************)
(* C28.  Within one feed() the rewrite follows blink as a flag: a          *)
(* parameter 5 sets it, a reset parameter, 0 or empty, clears it, and it   *)
(* carries over from one sequence to the next.  Each 5 is dropped and      *)
(* every other parameter is handed on in its place; a background           *)
(* parameter 4x, x in 0..7, is handed on as 10x when the flag is set where *)
(* it stands and unchanged when the flag is clear, so also everywhere      *)
(* after a reset and before the next 5.                                    *)
(***************************************************************************)
C28_BlinkFlag ==
    OneFeed =>
        LET params == SgrParams(feeds[1])
            rewritten == SgrParams(to_parser)
            kept == KeptIdx(params)
        IN  /\ Len(rewritten) = Len(kept)
            /\ \A j \in 1..Len(kept) :
                   IsBackground(params[kept[j]].code) =>
                       rewritten[j].code =
                           IF BlinkAt(params, kept[j])
                           THEN Bright(params[kept[j]].code)
                           ELSE params[kept[j]].code

C28_Witness ==
    /\ feeds = <<SgrSequence(<<<<53>>, <<48>>>>) \o SgrSequence(<<<<52, 52>>>>) \o <<88>>>>
    /\ to_parser = SgrSequence(<<<<48>>>>) \o SgrSequence(<<<<52, 52>>>>) \o <<88>>

(***************************************************************************)
(* C29.  The background stays within the 16 colours: the only parameters   *)
(* the rewrite replaces are 40..47 and the only ones it puts in their      *)
(* place are 100..107, all other parameters but the dropped 5s being       *)
(* handed on as they are; and whatever background a cell stores, with or   *)
(* without blink, its effective background index is within 0..15.          *)
(***************************************************************************)
C29_BackgroundRange ==
    /\ OneFeed =>
           LET params == SgrParams(feeds[1])
               rewritten == SgrParams(to_parser)
               kept == KeptIdx(params)
           IN  /\ Len(rewritten) = Len(kept)
               /\ \A j \in 1..Len(kept) :
                      Canonical(rewritten[j].code) # Canonical(params[kept[j]].code) =>
                          /\ IsBackground(params[kept[j]].code)
                          /\ IsBright(rewritten[j].code)
    /\ \A bg \in CellBackgrounds, blink \in BOOLEAN :
           GetBackgroundIndex(bg, blink) \in 0..15

(***************************************************************************)
(* SpecReentrant: the event bus with callbacks that change the             *)
(* registrations of the type being delivered while publish() runs.         *)
(***************************************************************************)
ReentrantCallbacks == {"a", "b", "once", "adder"}

NextReentrant ==
    \/ \E event_type \in EventTypes, callback \in ReentrantCallbacks :
           EventBusSubscribe(event_type, callback)
    \/ \E event_type \in EventTypes, callback \in ReentrantCallbacks :
           EventBusUnsubscribe(event_type, callback)
    \/ \E event \in BusEvents : EventBusPublish(event)

SpecReentrant == Init /\ [][NextReentrant]_vars

(***************************************************************************)
(* C34.  A publish during which callbacks unsubscribe themselves or        *)
(* subscribe another callback still invokes every callback that was        *)
(* registered when it started and is not the one removed, once per         *)
(* registration and in registration order: leaving the removed callback    *)
(* aside, the invocations begin with the registrations of the start.       *)
(***************************************************************************)
C34_PublishStep ==
    last'.op = "publish" /\ last'.res = "returned" =>
        LET before == Without(Registered(subscribers, last'.event_type), "once")
            invoked == Without(InvokedCallbacks(last'), "once")
        IN  /\ Len(invoked) >= Len(before)
            /\ SubSeq(invoked, 1, Len(before)) = before

C34_ReentrantDelivery == [][C34_PublishStep]_vars

(***************************************************************************)
(* C35.  unsubscribe(type, callback) of a callback that is not subscribed  *)
(* to the type returns without an error and leaves the registrations as    *)
(* they were, whether the type has no list, an empty list or a list of     *)
(* other callbacks.                                                        *)
(***************************************************************************)
C35_UnsubscribeStep ==
    /\ last'.op = "unsubscribe"
    /\ Occurrences(Registered(subscribers, last'.event_type), last'.callback) = 0
    => /\ last'.res = "returned"
       /\ subscribers' = subscribers

C35_UnsubscribeAbsent == [][C35_UnsubscribeStep]_vars

(***************************************************************************)
(* Vocabulary of the per-chunk order.  The replies a chunk calls for: the  *)
(* reply to each of its complete commands, by position in the chunk, then  *)
(* the probe replies for its display data.                                 *)
(***************************************************************************)
RECURSIVE InOrder(_)
InOrder(cmds) ==
    IF cmds = {} THEN << >>
    ELSE LET c == CHOOSE x \in cmds : \A y \in cmds : x.from <= y.from
         IN  <<c>> \o InOrder(cmds \ {c})

ReplyTo(raw, c) ==
    IF c.kind = "negotiation" THEN HandleTelnetCommand(raw[c.from + 1], raw[c.from + 2])
    ELSE IF c.kind = "subnegotiation"
         THEN HandleSubnegotiation(SubSeq(raw, c.from + 2, c.to - 2))
         ELSE << >>

NegotiationReplies(raw) ==
    LET cs == InOrder(TelnetCommands(raw, 1))
    IN  Flatten([k \in 1..Len(cs) |-> ReplyTo(raw, cs[k])])

ProbeReplies(display) == Flatten(HandleTerminalProbes(display))

IsPrefixOf(a, b) == Len(a) <= Len(b) /\ SubSeq(b, 1, Len(a)) = a

\* What a read-loop task (its record pr) has written since it read its
\* current chunk, st being the streams.
SinceMark(pr, st) ==
    LET w == st[pr.rd].written IN SubSeq(w, pr.mark + 1, Len(w))

\* The server's bytes of connection r read so far, st being the streams.
Consumed(st, r) == SubSeq(st[r].sent, 1, Len(st[r].sent) - Len(st[r].inbound))

(***************************************************************************)
(* C36.  Replies and notifications for one chunk are strictly ordered: the *)
(* negotiation and subnegotiation replies are written in the order of      *)
(* their commands in the chunk, all of them before any probe reply for the *)
(* chunk, and all writes for the chunk before its data-received            *)
(* notification is published; chunks are handled one after another, so the *)
(* notifications are published in arrival order.                           *)
(***************************************************************************)
C36_ChunkStep ==
    \A t \in Tasks :
        LET pr == proc'[t]
            neg == NegotiationReplies(pr.raw_bytes)
            all == neg \o ProbeReplies(ProcessTelnetData(pr.raw_bytes).result)
            since == SinceMark(pr, stream')
            published == /\ Len(events') = Len(events) + 1
                         /\ events'[Len(events')].type = "DATA_RECEIVED"
                         /\ events'[Len(events')].by = t
        IN  /\ pr.pc \in {"neg", "probe"}
               => /\ IsPrefixOf(since, all)
                  /\ pr.pc = "neg" => IsPrefixOf(since, neg) /\ since # << >>
                  /\ pr.pc = "probe" => IsPrefixOf(neg, since) /\ since # neg
                  /\ events' = events
            /\ published
               => /\ since = all
                  /\ stream'[pr.rd].written = stream[pr.rd].written
                  /\ pr.pc = "read"
            /\ pr.pc \in {"read", "neg", "probe"} /\ ~Contains(stream'[pr.rd].sent, <<IAC>>)
               => LET read == Consumed(stream', pr.rd)
                      done == IF pr.pc = "read" THEN Len(read)
                              ELSE Len(read) - Len(pr.raw_bytes)
                  IN  TextOf(events', pr.rd) = Decode(SubSeq(read, 1, done))

C36_ChunkOrder == [][C36_ChunkStep]_vars

C36_Witness ==
    \E t \in Tasks :
        /\ proc[t].pc = "read"
        /\ proc[t].raw_bytes =
               <<IAC, DO, TERMINAL_TYPE, ESC, 91, 54, 110, IAC, WILL, ECHO, ESC, 91, 99>>
        /\ stream[proc[t].rd].written =
               <<IAC, WILL, TERMINAL_TYPE>> \o <<IAC, DO, ECHO>>
                   \o <<ESC, 91, 50, 52, 59, 56, 48, 82>> \o <<ESC, 91, 63, 49, 59, 48, 99>>
        /\ events[Len(events)] =
               EvDataReceived(<<ESC, 91, 54, 110, ESC, 91, 99>>, proc[t].rd, t)

\* The number of (non-overlapping) occurrences of sub in data from start on.
RECURSIVE CountFrom(_, _, _)
CountFrom(data, sub, start) ==
    LET k == Find(data, sub, start)
    IN  IF k = 0 THEN 0 ELSE 1 + CountFrom(data, sub, k + Len(sub))

(***************************************************************************)
(* C37.  Each terminal probe in the forwarded data is answered: when all   *)
(* the server sent has been read, as many cursor-position reports          *)
(* ESC[24;80R have been written on the connection as the forwarded display *)
(* data has occurrences of ESC[6n, whether several of them came in one     *)
(* chunk or one was split across two chunks.                               *)
(***************************************************************************)
C37_EachProbeAnswered ==
    \A t \in Tasks :
        ReadAll(t)
        => CountFrom(stream[proc[t].rd].written, <<ESC, 91, 50, 52, 59, 56, 48, 82>>, 1)
               = CountFrom(ReceivedText(proc[t].rd), <<ESC, 91, 54, 110>>, 1)

\* C37 for a stream read in one chunk, its probes whole: display data with
\* n occurrences of ESC[6n is answered with n reports.
C37_WholeChunk ==
    \A t \in Tasks :
        ReadWhole(t)
        => CountFrom(stream[proc[t].rd].written, <<ESC, 91, 50, 52, 59, 56, 48, 82>>, 1)
               = CountFrom(ProcessTelnetData(proc[t].raw_bytes).result, <<ESC, 91, 54, 110>>, 1)

\* A subscriber of DATA_RECEIVED raises when it is called.
DataSubscriberRaises ==
    /\ "DATA_RECEIVED" \in DOMAIN subscribers
    /\ Occurrences(subscribers["DATA_RECEIVED"], "boom") > 0

\* The step publishes a data-received notification of task t.
PublishesData(t) ==
    /\ Len(events') = Len(events) + 1
    /\ events'[Len(events')].type = "DATA_RECEIVED"
    /\ events'[Len(events')].by = t

(***************************************************************************)
(* C38.  An exception raised by a subscriber of the data-received          *)
(* notification does not break the transport: the step that publishes     *)
(* leaves connected, the reader, the writer, the read task and the streams *)
(* as they were and the read loop waiting in reader.read for the next      *)
(* chunk, nothing else is published, and every later chunk is still read,  *)
(* answered with all its replies and published.                            *)
(***************************************************************************)
C38_RaiseStep ==
    \A t \in Tasks :
        DataSubscriberRaises
        => /\ PublishesData(t)
              => /\ connected' = connected /\ reader' = reader /\ writer' = writer
                 /\ read_task' = read_task /\ nconn' = nconn
                 /\ stream'[proc[t].rd].closed = stream[proc[t].rd].closed
                 /\ proc'[t].pc = "read" /\ ~proc'[t].must_cancel
                 /\ proc'[t].rd = proc[t].rd
                 /\ stream'[proc[t].rd].waiter = t
           /\ \A k \in 1..Len(events') : events'[k].type \in {"CONNECTED", "DATA_RECEIVED"}
           /\ proc[t].pc = "read" /\ stream'[proc[t].rd].reads > 1
                 /\ stream'[proc[t].rd].reads # stream[proc[t].rd].reads
              => proc'[t].raw_bytes # << >>
           /\ /\ proc[t].pc \in {"read", "neg", "probe"}
              /\ stream[proc[t].rd].reads >= 1
              /\ proc'[t] # proc[t] \/ stream'[proc[t].rd].reads # stream[proc[t].rd].reads
              /\ proc'[t].pc \notin {"neg", "probe"}
              => LET pr == proc'[t]
                     out == ProcessTelnetData(pr.raw_bytes).result
                 IN  /\ pr.pc = "read"
                     /\ IF out = << >> THEN events' = events
                        ELSE /\ PublishesData(t)
                             /\ events'[Len(events')].data = Decode(out)
                     /\ SinceMark(pr, stream')
                            = NegotiationReplies(pr.raw_bytes) \o ProbeReplies(out)

C38_RaisingSubscriber == [][C38_RaiseStep]_vars

C38_Witness ==
    \E t \in Tasks :
        /\ DataSubscriberRaises
        /\ ReadInTwo(t)
        /\ stream[proc[t].rd].sent = <<IAC, DO, ECHO, ESC, 91, 54, 110>>
        /\ proc[t].raw_bytes = <<91, 54, 110>>
        /\ connected /\ reader = proc[t].rd /\ writer = proc[t].rd
        /\ Len(events) = 3
        /\ events[2] = EvDataReceived(<<ESC>>, proc[t].rd, t)
        /\ events[3] = EvDataReceived(<<91, 54, 110>>, proc[t].rd, t)

(***************************************************************************)
(* C39.  The iCE rewrite changes nothing but blink and background          *)
(* parameters: the characters outside the SGR sequences are handed on      *)
(* unchanged and in order, every parameter other than 5 and 40..47 (1, 48, *)
(* 49, ...) is handed on unchanged in its place among the parameters, no   *)
(* parameter becomes a reset that was none, and the rewrite of the output  *)
(* is the output.                                                          *)
(***************************************************************************)
C39_RewriteFrame ==
    OneFeed =>
        LET params == SgrParams(feeds[1])
            rewritten == SgrParams(to_parser)
            kept == KeptIdx(params)
        IN  /\ PlainText(to_parser, 1) = PlainText(feeds[1], 1)
            /\ Len(rewritten) = Len(kept)
            /\ \A j \in 1..Len(kept) :
                   /\ ~IsBackground(params[kept[j]].code)
                      => Canonical(rewritten[j].code) = Canonical(params[kept[j]].code)
                   /\ IsReset(rewritten[j].code) => IsReset(params[kept[j]].code)
            /\ to_parser = Encode(ConvertIceColors(feeds[1]))
            /\ ConvertIceColors(ConvertIceColors(feeds[1])) = ConvertIceColors(feeds[1])

=============================================================================
